---- MODULE Spec2Model ----
(***************************************************************************)
(* Model of scripts/build_report_data.py: the batch pipeline that reads    *)
(* the combined report rows, resolves each row's date, merges rows that    *)
(* share an identity key, reconciles inferred-date rows against properly   *)
(* dated ones and emits the item list.                                     *)
(*                                                                         *)
(* Text is a sequence of one-character strings, so that stripping,         *)
(* splitting, prefix comparison, number parsing and date formatting are    *)
(* computed rather than assumed.  An optional value (Python None or a      *)
(* value) is a sequence of length 0 or 1.                                  *)
(***************************************************************************)
EXTENDS Integers, Sequences, FiniteSets, TLC

\* ------------------------------------------------------------------ text

None == <<>>
Some(x) == <<x>>
IsNone(o) == o = <<>>
Val(o) == o[1]

\* Characters removed by str.strip() and separating str.split() tokens.
WS == {" ", "\t"}

UPPER == <<"A","B","C","D","E","F","G","H","I","J","K","L","M",
           "N","O","P","Q","R","S","T","U","V","W","X","Y","Z">>
LOWERS == <<"a","b","c","d","e","f","g","h","i","j","k","l","m",
            "n","o","p","q","r","s","t","u","v","w","x","y","z">>
DIGITS == <<"0","1","2","3","4","5","6","7","8","9">>

Range(s) == {s[i] : i \in 1..Len(s)}
IsDigit(c) == c \in Range(DIGITS)
DigitVal(c) == (CHOOSE i \in 1..10 : DIGITS[i] = c) - 1

\* str.lower(), one character.
LowerChar(c) ==
    IF \E i \in 1..26 : UPPER[i] = c
    THEN LOWERS[CHOOSE i \in 1..26 : UPPER[i] = c]
    ELSE c

Lower(s) == [i \in 1..Len(s) |-> LowerChar(s[i])]

RECURSIVE LStrip(_)
LStrip(s) == IF s # <<>> /\ Head(s) \in WS THEN LStrip(Tail(s)) ELSE s

RECURSIVE RStrip(_)
RStrip(s) ==
    IF s # <<>> /\ s[Len(s)] \in WS THEN RStrip(SubSeq(s, 1, Len(s) - 1)) ELSE s

\* str.strip()
Strip(s) == RStrip(LStrip(s))

\* str.rstrip(".")
RECURSIVE RStripDots(_)
RStripDots(s) ==
    IF s # <<>> /\ s[Len(s)] = "." THEN RStripDots(SubSeq(s, 1, Len(s) - 1)) ELSE s

\* str.replace(c, "")
RemoveChar(s, c) == SelectSeq(s, LAMBDA x : x # c)

\* str.split(): the maximal runs of non-whitespace characters.
RECURSIVE SplitAcc(_, _, _)
SplitAcc(s, cur, out) ==
    IF s = <<>> THEN (IF cur = <<>> THEN out ELSE Append(out, cur))
    ELSE IF Head(s) \in WS
         THEN SplitAcc(Tail(s), <<>>, IF cur = <<>> THEN out ELSE Append(out, cur))
         ELSE SplitAcc(Tail(s), Append(cur, Head(s)), out)

Split(s) == SplitAcc(s, <<>>, <<>>)

\* s[i:] starts with pat (1-based i).
StartsAt(s, pat, i) ==
    /\ i >= 1
    /\ i + Len(pat) - 1 <= Len(s)
    /\ SubSeq(s, i, i + Len(pat) - 1) = pat

\* pat in s
Contains(s, pat) == \E i \in 1..(Len(s) + 1) : StartsAt(s, pat, i)

\* s[:n]
Prefix(s, n) == SubSeq(s, 1, IF n < Len(s) THEN n ELSE Len(s))

Min(a, b) == IF a < b THEN a ELSE b

RECURSIVE NatOf(_)
NatOf(s) ==
    IF s = <<>> THEN 0
    ELSE NatOf(SubSeq(s, 1, Len(s) - 1)) * 10 + DigitVal(s[Len(s)])

AllDigits(s) == s # <<>> /\ \A i \in 1..Len(s) : IsDigit(s[i])

RECURSIVE DigitsOf(_)
DigitsOf(n) ==
    IF n < 10 THEN <<DIGITS[n + 1]>>
    ELSE Append(DigitsOf(n \div 10), DIGITS[(n % 10) + 1])

RECURSIVE ZFill(_, _)
ZFill(s, w) == IF Len(s) >= w THEN s ELSE ZFill(<<"0">> \o s, w)

\* f"{n:0wd}" for n >= 0
Pad(n, w) == ZFill(DigitsOf(n), w)

\* int(text): an optional sign and decimal digits; anything else is a
\* ValueError, modelled as None.
PyInt(t) ==
    LET body == IF t # <<>> /\ Head(t) \in {"+", "-"} THEN Tail(t) ELSE t
        neg == t # <<>> /\ Head(t) = "-"
    IN  IF AllDigits(body)
        THEN Some(IF neg THEN 0 - NatOf(body) ELSE NatOf(body))
        ELSE None

\* ----------------------------------------------------------------- dates

\* MONTHS_MAP: month name or abbreviation (lower case) -> month number.
MONTHS_MAP ==
    << <<<<"j","a","n">>, 1>>,
       <<<<"j","a","n","u","a","r","y">>, 1>>,
       <<<<"f","e","b">>, 2>>,
       <<<<"f","e","b","r","u","a","r","y">>, 2>>,
       <<<<"m","a","r">>, 3>>,
       <<<<"m","a","r","c","h">>, 3>>,
       <<<<"a","p","r">>, 4>>,
       <<<<"a","p","r","i","l">>, 4>>,
       <<<<"m","a","y">>, 5>>,
       <<<<"j","u","n">>, 6>>,
       <<<<"j","u","n","e">>, 6>>,
       <<<<"j","u","l">>, 7>>,
       <<<<"j","u","l","y">>, 7>>,
       <<<<"a","u","g">>, 8>>,
       <<<<"a","u","g","u","s","t">>, 8>>,
       <<<<"s","e","p">>, 9>>,
       <<<<"s","e","p","t">>, 9>>,
       <<<<"s","e","p","t","e","m","b","e","r">>, 9>>,
       <<<<"o","c","t">>, 10>>,
       <<<<"o","c","t","o","b","e","r">>, 10>>,
       <<<<"n","o","v">>, 11>>,
       <<<<"n","o","v","e","m","b","e","r">>, 11>>,
       <<<<"d","e","c">>, 12>>,
       <<<<"d","e","c","e","m","b","e","r">>, 12>> >>

\* map.get(t) on a sequence of <<key, value>> pairs: None or the value.
Lookup(map, t) ==
    IF \E i \in 1..Len(map) : map[i][1] = t
    THEN Some(map[CHOOSE i \in 1..Len(map) : map[i][1] = t][2])
    ELSE None

\* MONTHS_MAP.get(t)
MonthsMapGet(t) == Lookup(MONTHS_MAP, t)

\* datetime.date: the years the type represents.
MINYEAR == 1
MAXYEAR == 9999

IsLeap(y) == (y % 4 = 0 /\ y % 100 # 0) \/ y % 400 = 0

DaysInMonth(y, m) ==
    IF m \in {4, 6, 9, 11} THEN 30
    ELSE IF m = 2 THEN (IF IsLeap(y) THEN 29 ELSE 28)
    ELSE 31

\* datetime.date(y, m, d) succeeds; otherwise it raises ValueError.
ValidDate(y, m, d) ==
    /\ y >= MINYEAR /\ y <= MAXYEAR
    /\ m >= 1 /\ m <= 12
    /\ d >= 1 /\ d <= DaysInMonth(y, m)

MkDate(y, m, d) == [year |-> y, month |-> m, day |-> d]

\* date.isoformat(): "YYYY-MM-DD"
isoformat(d) ==
    Pad(d.year, 4) \o <<"-">> \o Pad(d.month, 2) \o <<"-">> \o Pad(d.day, 2)

\* month_key(d): f"{d.year:04d}-{d.month:02d}"
month_key(d) == Pad(d.year, 4) \o <<"-">> \o Pad(d.month, 2)

\* date.fromisoformat(s) on the "YYYY-MM-DD" shape; None stands for the
\* ValueError every caller catches.
DateOrNone(y, m, d) == IF ValidDate(y, m, d) THEN Some(MkDate(y, m, d)) ELSE None

fromisoformat(s) ==
    IF /\ Len(s) = 10
       /\ s[5] = "-" /\ s[8] = "-"
       /\ AllDigits(SubSeq(s, 1, 4))
       /\ AllDigits(SubSeq(s, 6, 7))
       /\ AllDigits(SubSeq(s, 9, 10))
    THEN DateOrNone(NatOf(SubSeq(s, 1, 4)), NatOf(SubSeq(s, 6, 7)),
                    NatOf(SubSeq(s, 9, 10)))
    ELSE None

\* A call that may raise: the exception flag and the value returned.
Returned(v) == [raised |-> FALSE, val |-> v]
Raised == [raised |-> TRUE, val |-> None]

\* parse_report_month, from the month looked up and the year parsed.  The
\* final dt.date(y, m, 1) is outside any try block, so a year the calendar
\* cannot represent raises.
ReportMonthOf(m, y) ==
    IF IsNone(y) \/ IsNone(m) THEN Returned(None)
    ELSE IF ValidDate(Val(y), Val(m), 1)
         THEN Returned(Some(MkDate(Val(y), Val(m), 1)))
         ELSE Raised

\* parse_report_month, from the split text.
ReportMonthParts(parts) ==
    IF Len(parts) # 2 THEN Returned(None)
    ELSE ReportMonthOf(MonthsMapGet(Lower(Strip(parts[1]))), PyInt(parts[2]))

\* parse_report_month(s): [raised, val]
parse_report_month(s) ==
    IF s = <<>> THEN Returned(None) ELSE ReportMonthParts(Split(Strip(s)))

\* parse_human_date, from the day, month and year parsed: every ValueError
\* is caught.
HumanDateOf(day, m, year) ==
    IF IsNone(day) \/ IsNone(m) \/ IsNone(year) THEN None
    ELSE DateOrNone(Val(year), Val(m), Val(day))

\* parse_human_date, from the split text.
HumanDateParts(parts) ==
    IF Len(parts) # 3 THEN None
    ELSE HumanDateOf(PyInt(parts[1]), MonthsMapGet(Lower(Strip(parts[2]))),
                     PyInt(parts[3]))

\* parse_human_date(s): None or a date.
parse_human_date(s) ==
    IF s = <<>> \/ Strip(s) = <<>> THEN None
    ELSE HumanDateParts(Split(RemoveChar(Strip(s), ",")))

\* ------------------------------------------------------------------ URLs

\* [A-Za-z0-9_-]
IdChars == Range(UPPER) \cup Range(LOWERS) \cup Range(DIGITS) \cup {"_", "-"}

\* Length of the run of identifier characters of s that starts at i.
RECURSIVE RunLen(_, _)
RunLen(s, i) ==
    IF i <= Len(s) /\ s[i] \in IdChars THEN 1 + RunLen(s, i + 1) ELSE 0

\* The regex  pat([A-Za-z0-9_-]{6,})  anchored at i: the captured group.
MatchIdAfter(s, pat, i) ==
    IF StartsAt(s, pat, i) /\ RunLen(s, i + Len(pat)) >= 6
    THEN Some(SubSeq(s, i + Len(pat), i + Len(pat) + RunLen(s, i + Len(pat)) - 1))
    ELSE None

\* The alternatives pats[j], pats[j+1], ... tried in order at position i.
RECURSIVE MatchAnyAt(_, _, _, _)
MatchAnyAt(s, pats, i, j) ==
    IF j > Len(pats) THEN None
    ELSE IF StartsAt(s, pats[j], i) /\ RunLen(s, i + Len(pats[j])) >= 6
         THEN MatchIdAfter(s, pats[j], i)
         ELSE MatchAnyAt(s, pats, i, j + 1)

\* re.search from position i on: the leftmost match.
RECURSIVE ReSearchFrom(_, _, _)
ReSearchFrom(s, pats, i) ==
    IF i > Len(s) THEN None
    ELSE IF \E j \in 1..Len(pats) :
                StartsAt(s, pats[j], i) /\ RunLen(s, i + Len(pats[j])) >= 6
         THEN MatchAnyAt(s, pats, i, 1)
         ELSE ReSearchFrom(s, pats, i + 1)

ReSearch(s, pats) == ReSearchFrom(s, pats, 1)

\* YOUTUBE_ID_RE
YOUTUBE_ID_RE ==
    << <<"y","o","u","t","u",".","b","e","/">>,
       <<"y","o","u","t","u","b","e",".","c","o","m","/","w","a","t","c","h","?","v","=">>,
       <<"y","o","u","t","u","b","e",".","c","o","m","/","s","h","o","r","t","s","/">>,
       <<"y","o","u","t","u","b","e",".","c","o","m","/","e","m","b","e","d","/">> >>

\* STUDIO_ID_RE
STUDIO_ID_RE ==
    << <<"s","t","u","d","i","o",".","y","o","u","t","u","b","e",".","c","o","m",
         "/","v","i","d","e","o","/">> >>

STUDIO_HOST ==
    <<"s","t","u","d","i","o",".","y","o","u","t","u","b","e",".","c","o","m">>
YOUTUBE_HOST == <<"y","o","u","t","u","b","e",".","c","o","m">>
WATCH_PATH == <<"/","w","a","t","c","h">>
WATCH_URL ==
    <<"h","t","t","p","s",":","/","/","w","w","w",".","y","o","u","t","u","b","e",
      ".","c","o","m","/","w","a","t","c","h","?","v","=">>

\* Index of the first character of s that is in cs, or Len(s) + 1.
FirstOf(s, cs) ==
    IF \E i \in 1..Len(s) : s[i] \in cs
    THEN CHOOSE i \in 1..Len(s) : s[i] \in cs /\ \A j \in 1..(i - 1) : s[j] \notin cs
    ELSE Len(s) + 1

\* s[:i-1] and s[i+1:] for a 1-based index i.
Before(s, i) == SubSeq(s, 1, i - 1)
After(s, i) == SubSeq(s, i + 1, Len(s))

\* str.split(c): the segments between occurrences of c, empty ones included.
RECURSIVE SplitOn(_, _)
SplitOn(s, c) ==
    IF FirstOf(s, {c}) > Len(s) THEN <<s>>
    ELSE <<Before(s, FirstOf(s, {c}))>> \o SplitOn(After(s, FirstOf(s, {c})), c)

\* urlparse: the path without the parameters of its last segment.
PathOnly(fullPath, lastSeg) ==
    SubSeq(fullPath, 1, Len(fullPath) - Len(lastSeg) + FirstOf(lastSeg, {";"}) - 1)

\* urlparse: path and query of what follows the network location, the
\* fragment already cut off.
UrlPathQuery(netloc, s) ==
    [netloc |-> netloc,
     path |-> PathOnly(Before(s, FirstOf(s, {"?"})),
                       SplitOn(Before(s, FirstOf(s, {"?"})), "/")
                           [Len(SplitOn(Before(s, FirstOf(s, {"?"})), "/"))]),
     query |-> After(s, FirstOf(s, {"?"}))]

\* urlparse: the network location of what follows "//".
UrlNetloc(s) ==
    UrlPathQuery(Before(s, FirstOf(s, {"/", "?", "#"})),
                 Before(SubSeq(s, FirstOf(s, {"/", "?", "#"}), Len(s)),
                        FirstOf(SubSeq(s, FirstOf(s, {"/", "?", "#"}), Len(s)), {"#"})))

\* urlparse: what follows the scheme.
UrlAfterScheme(rest) ==
    IF StartsAt(rest, <<"/","/">>, 1)
    THEN UrlNetloc(SubSeq(rest, 3, Len(rest)))
    ELSE UrlPathQuery(<<>>, Before(rest, FirstOf(rest, {"#"})))

SchemeChars == Range(UPPER) \cup Range(LOWERS) \cup Range(DIGITS) \cup {"+", "-", "."}

\* urllib.parse.urlparse(u): netloc, path and query of an absolute or
\* scheme-relative URL (percent-escapes are not decoded).
urlparse(u) ==
    IF /\ FirstOf(u, {":"}) > 1 /\ FirstOf(u, {":"}) <= Len(u)
       /\ u[1] \in Range(UPPER) \cup Range(LOWERS)
       /\ \A i \in 1..(FirstOf(u, {":"}) - 1) : u[i] \in SchemeChars
    THEN UrlAfterScheme(After(u, FirstOf(u, {":"})))
    ELSE UrlAfterScheme(u)

\* parse_qs: "+" in a name or value stands for a space.
PlusToSpace(v) == [i \in 1..Len(v) |-> IF v[i] = "+" THEN " " ELSE v[i]]

\* parse_qs: the pair "name=value" gives name a non-blank value.
PairGives(pair, name) ==
    /\ FirstOf(pair, {"="}) <= Len(pair)
    /\ PlusToSpace(Before(pair, FirstOf(pair, {"="}))) = name
    /\ After(pair, FirstOf(pair, {"="})) # <<>>

\* (parse_qs(query).get(name) or [None])[0], over the pairs from index i on.
RECURSIVE FirstValueFrom(_, _, _)
FirstValueFrom(pairs, name, i) ==
    IF i > Len(pairs) THEN None
    ELSE IF PairGives(pairs[i], name)
         THEN Some(PlusToSpace(After(pairs[i], FirstOf(pairs[i], {"="}))))
         ELSE FirstValueFrom(pairs, name, i + 1)

FirstQueryValue(query, name) == FirstValueFrom(SplitOn(query, "&"), name, 1)

\* The canonical watch URL of a video identifier (None: no identifier).
CanonicalOf(vid) == IF IsNone(vid) THEN None ELSE Some(WATCH_URL \o Val(vid))

\* normalize_youtube_url, the fallback on a parsed watch URL.
WatchQueryId(parsed) ==
    IF Contains(parsed.netloc, YOUTUBE_HOST) /\ parsed.path = WATCH_PATH
    THEN FirstQueryValue(parsed.query, <<"v">>)
    ELSE None

\* normalize_youtube_url, from the stripped URL and the match of
\* YOUTUBE_ID_RE in it.
NormalizeMatched(u, m) ==
    IF ~IsNone(m) THEN CanonicalOf(m) ELSE CanonicalOf(WatchQueryId(urlparse(u)))

NormalizeStripped(u) ==
    IF u = <<>> THEN None
    ELSE IF Contains(u, STUDIO_HOST) THEN CanonicalOf(ReSearch(u, STUDIO_ID_RE))
    ELSE NormalizeMatched(u, ReSearch(u, YOUTUBE_ID_RE))

\* normalize_youtube_url(url): None or the canonical watch URL.
normalize_youtube_url(url) ==
    IF url = <<>> THEN None ELSE NormalizeStripped(Strip(url))

\* --------------------------------------------------------------- numbers

\* Largest decimal exponent of a finite double: a literal whose integer part
\* has more digits than this converts to infinity.
FLOAT_MAX_10_EXP == 308

DropLeadingZeros(s) == SubSeq(s, FirstOf(s, Range(DIGITS) \ {"0"}), Len(s))

\* A float() result converted by int(): kind "num" (val the value truncated
\* toward zero), "inf" (int() raises OverflowError) or "err" (ValueError,
\* from float() or from int(nan)).
FloatNum(neg, mag) == [kind |-> "num", val |-> IF neg THEN 0 - mag ELSE mag]
FloatInf == [kind |-> "inf", val |-> 0]
FloatErr == [kind |-> "err", val |-> 0]

\* The whole part of the decimal number with digits all and the decimal
\* point after the first point digits.
WholePart(all, point) ==
    IF point <= 0 THEN 0
    ELSE IF point <= Len(all) THEN NatOf(SubSeq(all, 1, point))
    ELSE NatOf(all \o [i \in 1..(point - Len(all)) |-> "0"])

\* The digits all of a literal, the decimal point after the first point of
\* them.  Values are small enough for the double to be exact.
FloatOfDigits(neg, all, point) ==
    IF DropLeadingZeros(all) = <<>> THEN FloatNum(neg, 0)
    ELSE IF point - (Len(all) - Len(DropLeadingZeros(all))) > FLOAT_MAX_10_EXP + 1
         THEN FloatInf
         ELSE FloatNum(neg, WholePart(all, point))

\* The integer digits, fraction digits and exponent of a literal.
FloatOfParts(neg, ipart, fpart, expo) ==
    IF /\ ipart \o fpart # <<>>
       /\ \A i \in 1..Len(ipart) : IsDigit(ipart[i])
       /\ \A i \in 1..Len(fpart) : IsDigit(fpart[i])
       /\ ~IsNone(expo)
    THEN FloatOfDigits(neg, ipart \o fpart, Len(ipart) + Val(expo))
    ELSE FloatErr

\* The mantissa and exponent of a literal.
FloatOfMantissa(neg, mant, expo) ==
    FloatOfParts(neg, Before(mant, FirstOf(mant, {"."})),
                 After(mant, FirstOf(mant, {"."})), expo)

\* The literal without its sign, in lower case: inf, infinity, nan, or
\* digits with an optional fraction and an optional exponent.
FloatOfBody(neg, low) ==
    IF low \in { <<"i","n","f">>, <<"i","n","f","i","n","i","t","y">> } THEN FloatInf
    ELSE IF low = <<"n","a","n">> THEN FloatErr
    ELSE FloatOfMantissa(neg, Before(low, FirstOf(low, {"e"})),
                         IF FirstOf(low, {"e"}) <= Len(low)
                         THEN PyInt(After(low, FirstOf(low, {"e"})))
                         ELSE Some(0))

\* int(float(t))
IntOfFloat(t) ==
    FloatOfBody(t # <<>> /\ Head(t) = "-",
                Lower(IF t # <<>> /\ Head(t) \in {"+", "-"} THEN Tail(t) ELSE t))

\* The one character U+2014 (em dash), written in ASCII.
EM_DASH == "U+2014"

\* parse_int, from the result of int(float(t)): ValueError is caught and
\* gives None; the OverflowError of int(inf) is not caught.
ParseIntOf(r) ==
    IF r.kind = "inf" THEN Raised
    ELSE IF r.kind = "err" THEN Returned(None)
    ELSE Returned(Some(r.val))

ParseIntStripped(t) ==
    IF t = <<>> \/ t = <<EM_DASH>> THEN Returned(None)
    ELSE ParseIntOf(IntOfFloat(RemoveChar(t, ",")))

\* parse_int(s) on the text of a CSV cell: [raised, val]
parse_int(s) == ParseIntStripped(Strip(s))

\* ---------------------------------------------------------------- lookup

\* A finite map (Python dict without order) and its update d[key] = v.
EmptyMap == [x \in {} |-> <<>>]
Put(f, key, v) == [x \in DOMAIN f \cup {key} |-> IF x = key THEN v ELSE f[x]]

\* youtube_publish_date returns without a network attempt.
NoFetch(v, cache) == [val |-> v, cache |-> cache, fetched |-> None]

\* youtube_publish_date, after the fetch of n: found is the date of the page
\* or of the yt-dlp fallback; a missing date is cached as "".
LookupFetched(n, cache, found) ==
    [val |-> found,
     cache |-> Put(cache, n, IF IsNone(found) THEN <<>> ELSE isoformat(Val(found))),
     fetched |-> Some(n)]

\* youtube_publish_date, the cache test: cached is the date parsed from the
\* cache entry of n (None: no entry, or an entry that is no date).
LookupCached(n, cache, cached, world) ==
    IF ~IsNone(cached) THEN NoFetch(cached, cache)
    ELSE LookupFetched(n, cache,
                       IF ~IsNone(world.html) THEN world.html ELSE world.ytdlp)

LookupNorm(norm, cache, world) ==
    IF IsNone(norm) THEN NoFetch(None, cache)
    ELSE LookupCached(Val(norm), cache,
                      IF Val(norm) \in DOMAIN cache
                      THEN fromisoformat(cache[Val(norm)]) ELSE None,
                      world)

\* youtube_publish_date(url, cache) against one answer of the outside
\* world: world.html is the date extract_publish_date finds in the fetched
\* page (None: the fetch failed or the page holds no date), world.ytdlp the
\* date the yt-dlp fallback prints (None: no tool, failure, other output).
\* Returns the date, the cache afterwards, and the canonical URL that was
\* fetched (None when no network attempt was made).
youtube_publish_date(url, cache, world) ==
    LookupNorm(normalize_youtube_url(url), cache, world)

\* --------------------------------------------------------- row -> record

YOUTUBE == <<"y","o","u","t","u","b","e">>
LINKEDIN == <<"l","i","n","k","e","d","i","n">>
INSTAGRAM == <<"i","n","s","t","a","g","r","a","m">>
POST == <<"p","o","s","t">>
NODATE == <<"_","n","o","d","a","t","e">>

\* main, date resolution, last step: rm is the result of parse_report_month
\* (not called when a date d1 is already known).
ResolvePeriod(d1, src1, rm, look, yp) ==
    [raised |-> rm.raised,
     d |-> IF IsNone(d1) THEN rm.val ELSE d1,
     date_source |-> IF IsNone(d1) /\ ~IsNone(rm.val)
                     THEN "inferred_report_month" ELSE src1,
     looked |-> look,
     yd |-> yp.val,
     cache |-> yp.cache,
     fetched |-> yp.fetched]

\* main, date resolution after the lookup yp.
ResolveLooked(r, d0, look, yp, d1) ==
    ResolvePeriod(d1,
                  IF ~IsNone(d0) THEN "provided"
                  ELSE IF ~IsNone(yp.val) THEN "youtube_publish"
                  ELSE "unknown",
                  IF IsNone(d1) THEN parse_report_month(Strip(r.ReportMonth))
                  ELSE Returned(None),
                  look, yp)

\* main, date resolution: d0 is the provided date, look whether the lookup
\* is called.
ResolveDate(r, d0, look, yp) ==
    ResolveLooked(r, d0, look, yp, IF ~IsNone(d0) THEN d0 ELSE yp.val)

ResolveParsed(r, d0, look, cache, world) ==
    ResolveDate(r, d0, look,
                IF look THEN youtube_publish_date(Strip(r.Link), cache, world)
                ELSE NoFetch(None, cache))

\* main, date resolution of one row: the locals d, date_source and yd,
\* whether youtube_publish_date was called, the cache afterwards, the URL
\* fetched, and whether parse_report_month raised.
ResolveRow(r, d0, cache, world) ==
    ResolveParsed(r, d0,
                  IsNone(d0) /\ Lower(Strip(r.Channel)) = YOUTUBE
                             /\ Strip(r.Link) # <<>>,
                  cache, world)

Resolve(r, cache, world) ==
    ResolveRow(r, parse_human_date(Strip(r.Date)), cache, world)

\* The numeric cells of a row.
NumericCells ==
    {"Impressions", "Views", "Engagements", "Clicks", "Attendees", "ChatCount",
     "EmailSends", "ArticleViews", "Interactions", "Notes"}

\* parse_int of every numeric cell of the row.
ParsedCells(r) == [c \in NumericCells |-> parse_int(r[c])]

\* main, the Instagram mapping on top of the (possibly swapped) metrics.
RemapInstagram(isInsta, p, imp1, eng1, views1) ==
    [impressions |-> IF isInsta /\ ~IsNone(p.Notes.val) /\ IsNone(imp1)
                     THEN p.Notes.val ELSE imp1,
     views |-> views1,
     engagements |-> IF isInsta /\ ~IsNone(p.Interactions.val) /\ IsNone(eng1)
                     THEN p.Interactions.val ELSE eng1,
     clicks |-> p.Clicks.val,
     raised |-> \/ \E c \in NumericCells \ {"Notes"} : p[c].raised
                \/ isInsta /\ p.Notes.raised,
     cells |-> p]

\* main, the LinkedIn swap of impressions, engagements and views.
RemapLinkedIn(swap, isInsta, p) ==
    RemapInstagram(isInsta, p,
                   IF swap THEN p.Views.val ELSE p.Impressions.val,
                   IF swap THEN p.Impressions.val ELSE p.Engagements.val,
                   IF swap THEN None ELSE p.Views.val)

Remap(channel, dtype, p) ==
    RemapLinkedIn(/\ channel = LINKEDIN
                  /\ Contains(dtype, POST)
                  /\ IsNone(p.Engagements.val)
                  /\ ~IsNone(p.Views.val) /\ ~IsNone(p.Impressions.val)
                  /\ Val(p.Views.val) > Val(p.Impressions.val),
                  channel = INSTAGRAM, p)

\* main, metric normalisation of one row: the remapped metrics, the parsed
\* cells, and whether a parse_int call raised.
Metrics(r) == Remap(Lower(Strip(r.Channel)), Lower(Strip(r.DataType)), ParsedCells(r))

\* main, the item dictionary built for one row.
MakeItem(r, rs, mt) ==
    [channel |-> Strip(r.Channel),
     type |-> Strip(r.DataType),
     title |-> Strip(r.Title),
     link |-> Strip(r.Link),
     date_raw |-> Strip(r.Date),
     date_iso |-> IF IsNone(rs.d) THEN <<>> ELSE isoformat(Val(rs.d)),
     month |-> IF IsNone(rs.d) THEN NODATE ELSE month_key(Val(rs.d)),
     date_source |-> rs.date_source,
     impressions |-> mt.impressions,
     views |-> mt.views,
     engagements |-> mt.engagements,
     clicks |-> mt.clicks,
     attendees |-> mt.cells.Attendees.val,
     chat_count |-> mt.cells.ChatCount.val,
     email_sends |-> mt.cells.EmailSends.val,
     article_views |-> mt.cells.ArticleViews.val,
     interactions |-> mt.cells.Interactions.val,
     report_month |-> Strip(r.ReportMonth)]

\* ------------------------------------------------------ identity and merge

\* A faulty DATE_PRIORITY: the key of the provided tier is misspelt, so the
\* tier falls back to the default 0.
DatePriorityTypo(source) ==
    CASE source = "provide" -> 3
      [] source = "youtube_publish" -> 2
      [] source = "inferred_report_month" -> 1
      [] OTHER -> 0

\* DATE_PRIORITY.get(source, 0)
DatePriority(source) ==
    CASE source = "provided" -> 3
      [] source = "youtube_publish" -> 2
      [] source = "inferred_report_month" -> 1
      [] OTHER -> 0

\* KeyOf with the date in the key of every LinkedIn and Instagram item,
\* linked or not.
KeyOfDatedByChannel(channel, dtype, title, norm_link, date_iso) ==
    IF \/ norm_link = <<>> /\ title = <<>>
       \/ Lower(channel) \in {LINKEDIN, INSTAGRAM}
    THEN <<channel, dtype, title, norm_link, date_iso>>
    ELSE <<channel, dtype, title, norm_link>>

\* dedup_key, from the stripped fields and the normalised link.
KeyOf(channel, dtype, title, norm_link, date_iso) ==
    IF norm_link = <<>> /\ (title = <<>> \/ Lower(channel) \in {LINKEDIN, INSTAGRAM})
    THEN <<channel, dtype, title, norm_link, date_iso>>
    ELSE <<channel, dtype, title, norm_link>>

\* dedup_key: the link, normalised when the channel is YouTube.
NormLink(channel, link, nl) ==
    IF Lower(channel) = YOUTUBE /\ link # <<>> /\ ~IsNone(nl) THEN Val(nl) ELSE link

\* dedup_key(item)
dedup_key(it) ==
    KeyOf(Strip(it.channel), Strip(it.type), Strip(it.title),
          NormLink(Strip(it.channel), Strip(it.link),
                   normalize_youtube_url(Strip(it.link))),
          it.date_iso)

\* x or y, on text
OrText(x, y) == IF x # <<>> THEN x ELSE y

\* item.get("impressions") or 0
ImpOrZero(it) == IF IsNone(it.impressions) THEN 0 ELSE Val(it.impressions)

\* The magnitude thresholds of the merge rule.
MAGNITUDE_FACTOR == 10
MAGNITUDE_FLOOR == 100

\* A faulty graft that forgets the tier.
GraftKeepsTier(prev, new) ==
    [prev EXCEPT !.date_raw = OrText(new.date_raw, prev.date_raw),
                 !.date_iso = OrText(new.date_iso, prev.date_iso),
                 !.month = OrText(new.month, prev.month)]

\* A faulty graft that forgets the month.
GraftNoMonth(prev, new) ==
    [prev EXCEPT !.date_raw = OrText(new.date_raw, prev.date_raw),
                 !.date_iso = OrText(new.date_iso, prev.date_iso),
                 !.date_source = new.date_source]

\* main, merge: the date fields of new grafted onto prev.
Graft(prev, new) ==
    [prev EXCEPT !.date_raw = OrText(new.date_raw, prev.date_raw),
                 !.date_iso = OrText(new.date_iso, prev.date_iso),
                 !.month = OrText(new.month, prev.month),
                 !.date_source = new.date_source]

\* A faulty magnitude test without the floor.
MuchBetterNoFloor(prev_imp, new_imp) == prev_imp > new_imp * MAGNITUDE_FACTOR

\* main, merge: the magnitude exception applies.
MuchBetterMetrics(prev_imp, new_imp) ==
    prev_imp > new_imp * MAGNITUDE_FACTOR /\ prev_imp > MAGNITUDE_FLOOR

\* A faulty merge in which a tie of impressions goes to the new item.
MergeByTieTakesNew(prev, new, p1, p2, prev_imp, new_imp) ==
    IF p2 > p1
    THEN IF MuchBetterMetrics(prev_imp, new_imp) THEN Graft(prev, new) ELSE new
    ELSE IF p2 = p1 /\ new_imp >= prev_imp THEN new
    ELSE prev

\* main, merge on collision, from the two priorities and impressions.
MergeBy(prev, new, p1, p2, prev_imp, new_imp) ==
    IF p2 > p1
    THEN IF MuchBetterMetrics(prev_imp, new_imp) THEN Graft(prev, new) ELSE new
    ELSE IF p2 = p1 /\ new_imp > prev_imp THEN new
    ELSE prev

\* main, merge on collision: the record stored under the key once the new
\* item has met the stored one (prev).
Merge(prev, new) ==
    MergeBy(prev, new, DatePriority(prev.date_source), DatePriority(new.date_source),
            ImpOrZero(prev), ImpOrZero(new))

\* -------------------------------------------------------------- reconcile

\* clean_title(t)
clean_title(t) == RStripDots(Lower(Strip(t)))

\* Shortest cleaned title the matcher accepts, and the compared prefix.
MIN_TITLE_LEN == 8
PREFIX_LEN == 10

\* A faulty title test without the minimum lengths.
TitlesMatchNoMin(ct, mt) ==
    /\ mt # <<>>
    /\ Prefix(ct, Min(Min(Len(ct), Len(mt)), PREFIX_LEN))
           = Prefix(mt, Min(Min(Len(ct), Len(mt)), PREFIX_LEN))

\* main, reconcile candidate test on the cleaned titles ct and mt.
TitlesMatch(ct, mt) ==
    /\ mt # <<>> /\ Len(mt) >= MIN_TITLE_LEN
    /\ Min(Len(ct), Len(mt)) >= MIN_TITLE_LEN
    /\ Prefix(ct, Min(Min(Len(ct), Len(mt)), PREFIX_LEN))
           = Prefix(mt, Min(Min(Len(ct), Len(mt)), PREFIX_LEN))

\* main, reconcile candidate test: the dated item mit matches the inferred
\* item it.
Matches(it, mit) ==
    /\ Lower(Strip(mit.channel)) = Lower(Strip(it.channel))
    /\ TitlesMatch(clean_title(Strip(it.title)), clean_title(mit.title))

\* FindBest keeping the first candidate that matches, whatever its type.
RECURSIVE FindBestFirst(_, _, _, _, _, _)
FindBestFirst(map, cands, removed, it, i, best) ==
    IF i > Len(cands) THEN best
    ELSE FindBestFirst(map, cands, removed, it, i + 1,
                       IF /\ cands[i] \notin removed
                          /\ Matches(it, map[cands[i]])
                          /\ IsNone(best)
                       THEN Some(cands[i]) ELSE best)

\* main, reconcile candidate search: the loop over dated_items from index
\* i on, with best the key chosen so far (None or a key).
RECURSIVE FindBest(_, _, _, _, _, _)
FindBest(map, cands, removed, it, i, best) ==
    IF i > Len(cands) THEN best
    ELSE FindBest(map, cands, removed, it, i + 1,
                  IF /\ cands[i] \notin removed
                     /\ Matches(it, map[cands[i]])
                     /\ \/ IsNone(best)
                        \/ /\ map[cands[i]].type = it.type
                           /\ map[Val(best)].type # it.type
                  THEN Some(cands[i]) ELSE best)

\* main, reconcile outcome: the inferred item after it adopted the date of
\* the dated item c.
Adopt(it, c) ==
    [it EXCEPT !.date_iso = c.date_iso,
               !.date_raw = c.date_raw,
               !.month = c.month,
               !.date_source = "matched_" \o c.date_source,
               !.link = IF c.link # <<>> /\ it.link = <<>> THEN c.link ELSE it.link]

\* A faulty outcome test in which a tie of impressions drops the inferred
\* item.
InferredWinsStrictly(it, c) == ImpOrZero(it) > ImpOrZero(c)

\* main, reconcile outcome: the inferred item keeps its place and takes the
\* date (TRUE), or is dropped (FALSE).
InferredWins(it, c) == ImpOrZero(it) >= ImpOrZero(c)

\* ----------------------------------------------------------------- state

VARIABLES
    pc,             \* where main() stands
    input_exists,   \* os.path.exists(INPUT_CSV)
    cache_file,     \* contents of CACHE_JSON on disk
    cache,          \* cache, the in-memory dict
    fetches,        \* calls of fetch_url_text so far, per canonical URL
    nrows,          \* rows the reader has yielded
    row,            \* the row being processed (None before the first)
    res,            \* its date-resolution locals (None: not resolved)
    item,           \* the item built for it (None: not built)
    k,              \* its identity key
    prev,           \* the record stored under k when the row arrived
    items_by_key,   \* the identity map
    key_order,      \* its keys in dict (insertion) order
    dated_items,    \* keys of the properly dated items, in order
    keys_to_remove, \* keys marked for removal by the reconciler
    scan,           \* list(items_by_key.items()): the keys the pass visits
    ri,             \* index of the next key of scan
    matched,        \* the pairs the reconciler has matched so far
    items,          \* the item list
    agg,            \* the aggregates, per month of the range
    series,         \* the chart series
    output,         \* the document in OUTPUT_JS (None: no such file)
    writes,         \* the files this run has written, in order
    run,            \* 1, or 2 when the script is run again on the same input
    input_rows,     \* the rows of INPUT_CSV the first of two runs has read
    first           \* the document the first of two runs wrote

vars == <<pc, input_exists, cache_file, cache, fetches, nrows, row, res, item, k,
          prev, items_by_key, key_order, dated_items, keys_to_remove, scan, ri,
          matched, items, agg, series, output, writes, run, input_rows, first>>

rowLocals == <<row, res, item, k, prev>>
reconVars == <<dated_items, keys_to_remove, scan, ri, matched, items>>
docVars == <<agg, series, output>>
runVars == <<run, input_rows, first>>

Count(f, x) == IF x \in DOMAIN f THEN f[x] ELSE 0

\* main, lines 332-334: the input file is missing.
MissingInput ==
    /\ pc = "start"
    /\ ~input_exists
    /\ pc' = "aborted"
    /\ UNCHANGED <<docVars, writes, runVars>>
    /\ UNCHANGED <<input_exists, cache_file, cache, fetches, nrows, rowLocals,
                   items_by_key, key_order, reconVars>>

\* main, lines 336-337: load_cache() and the empty identity map.
LoadCache ==
    /\ pc = "start"
    /\ input_exists
    /\ cache' = cache_file
    /\ items_by_key' = EmptyMap
    /\ key_order' = <<>>
    /\ pc' = "rows"
    /\ UNCHANGED <<docVars, writes, runVars>>
    /\ UNCHANGED <<input_exists, cache_file, fetches, nrows, rowLocals, reconVars>>

\* main, lines 423-445: the item meets the identity map under its key.
StoreItem(it, key) ==
    /\ item' = Some(it)
    /\ k' = Some(key)
    /\ prev' = IF key \in DOMAIN items_by_key THEN Some(items_by_key[key]) ELSE None
    /\ items_by_key' =
           Put(items_by_key, key,
               IF key \in DOMAIN items_by_key THEN Merge(items_by_key[key], it)
               ELSE it)
    /\ key_order' = IF key \in DOMAIN items_by_key THEN key_order
                    ELSE Append(key_order, key)

StoreBuilt(it) == StoreItem(it, dedup_key(it))

\* main, lines 350-445 for the row r, resolved as rs with metrics mt: the
\* run dies when parse_report_month or parse_int raised.
RowOutcome(r, rs, mt) ==
    /\ row' = Some(r)
    /\ cache' = rs.cache
    /\ fetches' = IF IsNone(rs.fetched) THEN fetches
                  ELSE Put(fetches, Val(rs.fetched),
                           Count(fetches, Val(rs.fetched)) + 1)
    /\ res' = IF rs.raised THEN None
              ELSE Some([d |-> rs.d, date_source |-> rs.date_source,
                         looked |-> rs.looked, yd |-> rs.yd])
    /\ IF rs.raised \/ mt.raised
       THEN /\ pc' = "crashed"
            /\ UNCHANGED <<item, k, prev, items_by_key, key_order>>
       ELSE /\ pc' = "rows"
            /\ StoreBuilt(MakeItem(r, rs, mt))

\* main, lines 341-445: one iteration of the row loop on row r, with the
\* outside world answering a lookup with world.
RowStep(r, world, max) ==
    /\ pc = "rows"
    /\ nrows < max
    /\ nrows' = nrows + 1
    /\ RowOutcome(r, Resolve(r, cache, world), Metrics(r))
    /\ UNCHANGED <<input_exists, cache_file, reconVars, docVars, writes>>

\* The reader yields the row r (a run that is not repeated).
ProcessRow(r, world, max) ==
    /\ RowStep(r, world, max)
    /\ UNCHANGED runVars

\* The reader yields the row r in the first of two runs.
FirstRunRow(r, world, max) ==
    /\ run = 1
    /\ RowStep(r, world, max)
    /\ input_rows' = Append(input_rows, r)
    /\ UNCHANGED <<run, first>>

\* The reader yields the next row of the same file in the second run.
SecondRunRow(world) ==
    /\ run = 2
    /\ RowStep(input_rows[nrows + 1], world, Len(input_rows))
    /\ UNCHANGED runVars

\* The row loop left without save_cache.
SaveCacheSkipped ==
    /\ pc = "rows"
    /\ pc' = "index"
    /\ UNCHANGED <<input_exists, cache_file, cache, fetches, nrows, rowLocals,
                   items_by_key, key_order, reconVars, docVars, writes, runVars>>

\* main, line 449: save_cache(cache), once the reader is exhausted.
SaveCache ==
    /\ pc = "rows"
    /\ run = 2 => nrows = Len(input_rows)
    /\ cache_file' = cache
    /\ writes' = Append(writes, "cache")
    /\ pc' = "index"
    /\ UNCHANGED <<input_exists, cache, fetches, nrows, rowLocals, items_by_key,
                   key_order, reconVars, docVars, runVars>>

\* main, lines 465-471: dated_items, keys_to_remove and the list the
\* reconciler iterates.
ReconcileInit ==
    /\ pc = "index"
    /\ dated_items' = SelectSeq(key_order,
                           LAMBDA x : items_by_key[x].date_source
                                          \in {"provided", "youtube_publish"})
    /\ keys_to_remove' = {}
    /\ scan' = key_order
    /\ ri' = 1
    /\ pc' = "reconcile"
    /\ UNCHANGED <<docVars, writes, runVars>>
    /\ UNCHANGED <<input_exists, cache_file, cache, fetches, nrows, rowLocals,
                   items_by_key, key_order, matched, items>>

\* ReconcilePair marking both records of the pair for removal.
ReconcilePairRemovesBoth(key, it, ck, c) ==
    /\ items_by_key' = IF InferredWins(it, c) THEN Put(items_by_key, key, Adopt(it, c))
                       ELSE items_by_key
    /\ keys_to_remove' = keys_to_remove \cup {ck, key}
    /\ matched' = Append(matched, [xk |-> key, x |-> it, ck |-> ck, c |-> c,
                                   adopted |-> InferredWins(it, c),
                                   removed |-> keys_to_remove])

\* main, lines 508-522: the inferred item it (key key) and its candidate c
\* (key ck).
ReconcilePair(key, it, ck, c) ==
    /\ items_by_key' = IF InferredWins(it, c) THEN Put(items_by_key, key, Adopt(it, c))
                       ELSE items_by_key
    /\ keys_to_remove' = keys_to_remove \cup {IF InferredWins(it, c) THEN ck ELSE key}
    /\ matched' = Append(matched, [xk |-> key, x |-> it, ck |-> ck, c |-> c,
                                   adopted |-> InferredWins(it, c),
                                   removed |-> keys_to_remove])

\* main, lines 505-506: no candidate, next item.
ReconcileBest(key, it, best) ==
    IF IsNone(best) THEN UNCHANGED <<items_by_key, keys_to_remove, matched>>
    ELSE ReconcilePair(key, it, Val(best), items_by_key[Val(best)])

\* main, lines 472-503: the items the pass skips, and the search.
ReconcileItem(key, it) ==
    IF \/ key \in keys_to_remove
       \/ it.date_source # "inferred_report_month"
       \/ Strip(it.title) = <<>>
    THEN UNCHANGED <<items_by_key, keys_to_remove, matched>>
    ELSE ReconcileBest(key, it,
                       FindBest(items_by_key, dated_items, keys_to_remove, it, 1, None))

\* main, lines 471-522: one iteration of the reconciler's loop.
ReconcileStep ==
    /\ pc = "reconcile"
    /\ ri <= Len(scan)
    /\ ri' = ri + 1
    /\ ReconcileItem(scan[ri], items_by_key[scan[ri]])
    /\ UNCHANGED <<docVars, writes, runVars>>
    /\ UNCHANGED <<pc, input_exists, cache_file, cache, fetches, nrows, rowLocals,
                   key_order, dated_items, scan, items>>

\* RemoveKeys popping no key.
RemoveKeysNone(kept) ==
    /\ key_order' = key_order
    /\ items_by_key' = items_by_key
    /\ items' = [i \in 1..Len(key_order) |-> items_by_key[key_order[i]]]

\* main, lines 524-527, the keys that stay.
RemoveKeys(kept) ==
    /\ key_order' = kept
    /\ items_by_key' = [x \in Range(kept) |-> items_by_key[x]]
    /\ items' = [i \in 1..Len(kept) |-> items_by_key[kept[i]]]

\* main, lines 524-527: the removals, then items = list(values).
ApplyRemovals ==
    /\ pc = "reconcile"
    /\ ri > Len(scan)
    /\ RemoveKeys(SelectSeq(key_order, LAMBDA x : x \notin keys_to_remove))
    /\ pc' = "fallback_links"
    /\ UNCHANGED <<docVars, writes, runVars>>
    /\ UNCHANGED <<input_exists, cache_file, cache, fetches, nrows, rowLocals,
                   dated_items, keys_to_remove, scan, ri, matched>>

\* ---------------------------------------------------------------- output

\* PLATFORM_LINKS
PLATFORM_LINKS ==
    <<
      <<<<"l","i","n","k","e","d","i","n">>,
        <<"h","t","t","p","s",":","/","/","w","w","w",".","l","i","n","k","e",
          "d","i","n",".","c","o","m","/","c","o","m","p","a","n","y","/","g",
          "o","v","c","o","n","g","i","a","n","t","s">>>>,
      <<<<"i","n","s","t","a","g","r","a","m">>,
        <<"h","t","t","p","s",":","/","/","w","w","w",".","i","n","s","t","a",
          "g","r","a","m",".","c","o","m","/","g","o","v","c","o","n","g","i",
          "a","n","t","s","/">>>>,
      <<<<"f","h","c">>,
        <<"h","t","t","p","s",":","/","/","f","e","d","e","r","a","l","h","e",
          "l","p","c","e","n","t","e","r",".","c","o","m","/">>>>,
      <<<<"p","o","d","c","a","s","t">>,
        <<"h","t","t","p","s",":","/","/","o","p","e","n",".","s","p","o","t",
          "i","f","y",".","c","o","m","/","s","h","o","w","/","1","X","Z","C",
          "a","N","0","V","D","P","9","z","Q","S","N","Y","S","1","s","y","o",
          "C">>>>
    >>

\* PLATFORM_LINKS.get(ch, "")
PlatformLinksGet(found) == IF IsNone(found) THEN <<>> ELSE Val(found)

\* main, fallback links: the item with its link type, given the platform
\* URL of its channel ("" when the channel has none).
LinkFallback(it, fallback) ==
    IF Strip(it.link) # <<>> THEN Put(it, "link_type", "direct")
    ELSE IF fallback # <<>>
    THEN Put([it EXCEPT !.link = fallback], "link_type", "platform")
    ELSE Put(it, "link_type", "none")

\* WithLinkType looking the channel up as it is written.
WithLinkTypeCaseSensitive(it) ==
    LinkFallback(it, PlatformLinksGet(Lookup(PLATFORM_LINKS, Strip(it.channel))))

\* main, fallback links, for one item.
WithLinkType(it) ==
    LinkFallback(it, PlatformLinksGet(Lookup(PLATFORM_LINKS, Lower(Strip(it.channel)))))

\* The printable ASCII characters in code order, without the double quote,
\* the backslash and the backquote: str comparison compares code points.
ASCII ==
    <<" ","!","#","$","%","&","'","(",")","*","+",",","-",".","/","0",
      "1","2","3","4","5","6","7","8","9",":",";","<","=",">","?","@","A","B",
      "C","D","E","F","G","H","I","J","K","L","M","N","O","P","Q","R","S","T",
      "U","V","W","X","Y","Z","[","]","^","_","a","b","c","d","e",
      "f","g","h","i","j","k","l","m","n","o","p","q","r","s","t","u","v","w",
      "x","y","z","{","|","}","~">>

Ord(c) == CHOOSE i \in 1..Len(ASCII) : ASCII[i] = c

\* a < b on str
RECURSIVE TextLess(_, _)
TextLess(a, b) ==
    IF b = <<>> THEN FALSE
    ELSE IF a = <<>> THEN TRUE
    ELSE IF a[1] = b[1] THEN TextLess(Tail(a), Tail(b))
    ELSE Ord(a[1]) < Ord(b[1])

\* The date that sorts undated items last.
SORT_LAST == <<"9","9","9","9","-","9","9","-","9","9">>

\* sort_key(it)
sort_key(it) == <<OrText(it.date_iso, SORT_LAST), it.channel, it.title>>

\* x < y on the tuples sort_key returns
KeyLess(x, y) ==
    \/ TextLess(x[1], y[1])
    \/ x[1] = y[1] /\ TextLess(x[2], y[2])
    \/ x[1] = y[1] /\ x[2] = y[2] /\ TextLess(x[3], y[3])

\* The sorted list with it inserted behind every item that does not sort
\* after it (list.sort is stable).
Insert(sorted, it) ==
    SelectSeq(sorted, LAMBDA x : ~KeyLess(sort_key(it), sort_key(x)))
        \o <<it>>
        \o SelectSeq(sorted, LAMBDA x : KeyLess(sort_key(it), sort_key(x)))

\* items.sort(key=sort_key), from item i on.
RECURSIVE SortFrom(_, _, _)
SortFrom(list, i, sorted) ==
    IF i > Len(list) THEN sorted
    ELSE SortFrom(list, i + 1, Insert(sorted, list[i]))

\* The configured range of months.
RANGE_START == <<"2","0","2","5","-","0","3">>
RANGE_END == <<"2","0","2","6","-","0","1">>

\* month_range, the loop from (y, m) to (ey, em).
RECURSIVE MonthsFrom(_, _, _, _)
MonthsFrom(y, m, ey, em) ==
    IF y > ey \/ (y = ey /\ m > em) THEN <<>>
    ELSE <<Pad(y, 4) \o <<"-">> \o Pad(m, 2)>>
             \o MonthsFrom(IF m = 12 THEN y + 1 ELSE y, IF m = 12 THEN 1 ELSE m + 1,
                           ey, em)

\* month_range, on the split texts.
MonthRangeOf(s, e) ==
    MonthsFrom(Val(PyInt(s[1])), Val(PyInt(s[2])), Val(PyInt(e[1])), Val(PyInt(e[2])))

\* month_range(start_ym, end_ym)
month_range(start_ym, end_ym) ==
    MonthRangeOf(SplitOn(start_ym, "-"), SplitOn(end_ym, "-"))

\* months
MONTHS == month_range(RANGE_START, RANGE_END)

\* METRIC_KEYS
METRIC_KEYS ==
    {"impressions", "views", "engagements", "clicks", "attendees", "chat_count",
     "email_sends", "article_views"}

\* The totals of a month, or of a channel in a month, before any item.
ZeroTotals == [key \in METRIC_KEYS \cup {"items"} |-> 0]

\* AddItem with the metric of the item replacing the total.
AddItemLastWins(tot, it) ==
    [key \in DOMAIN tot |->
        IF key = "items" THEN tot[key] + 1
        ELSE IF IsNone(it[key]) THEN tot[key]
        ELSE Val(it[key])]

\* One item added to totals: the count, and every metric that is an int.
AddItem(tot, it) ==
    [key \in DOMAIN tot |->
        IF key = "items" THEN tot[key] + 1
        ELSE IF IsNone(it[key]) THEN tot[key]
        ELSE tot[key] + Val(it[key])]

\* The entry of a month before any item.
EmptyMonth == [totals |-> ZeroTotals, by_channel |-> EmptyMap,
               is_empty |-> None, note |-> None]

\* main, aggregates: the item it, of month m and channel ch, added.
AggAdd(a, it, m, ch) ==
    IF m \notin DOMAIN a THEN a
    ELSE [a EXCEPT ![m].totals = AddItem(@, it),
                   ![m].by_channel =
                       Put(@, ch, AddItem(IF ch \in DOMAIN @ THEN @[ch] ELSE ZeroTotals,
                                          it))]

UNKNOWN_CHANNEL == <<"U","n","k","n","o","w","n">>

\* main, aggregates: the loop over the items from index i on.
RECURSIVE AggFrom(_, _, _)
AggFrom(a, list, i) ==
    IF i > Len(list) THEN a
    ELSE AggFrom(AggAdd(a, list[i], OrText(list[i].month, NODATE),
                        OrText(list[i].channel, UNKNOWN_CHANNEL)),
                 list, i + 1)

EMPTY_NOTE == "No new content published this month"

\* FlagEmpty testing the impressions of the month and not its item count.
FlagEmptyByImpressions(a) ==
    [m \in DOMAIN a |->
        IF a[m].totals.impressions = 0
        THEN [a[m] EXCEPT !.is_empty = Some(TRUE), !.note = Some(EMPTY_NOTE)]
        ELSE a[m]]

\* main, flag empty months.
FlagEmpty(a) ==
    [m \in DOMAIN a |->
        IF a[m].totals.items = 0
        THEN [a[m] EXCEPT !.is_empty = Some(TRUE), !.note = Some(EMPTY_NOTE)]
        ELSE a[m]]

\* main, aggregates of the item list.
Aggregates(list) ==
    FlagEmpty(AggFrom([m \in Range(MONTHS) |-> EmptyMonth], list, 1))

\* The totals the series chart.
SERIES_KEYS ==
    {"impressions", "views", "engagements", "clicks", "attendees", "chat_count",
     "items"}

\* main, series for charts.
Series(a) ==
    Put([key \in SERIES_KEYS |-> [i \in 1..Len(MONTHS) |-> a[MONTHS[i]].totals[key]]],
        "months", MONTHS)

\* main, lines 529-548: fallback links.  The items are the dictionaries of
\* the identity map, which is not read any more.
FallbackLinks ==
    /\ pc = "fallback_links"
    /\ items' = [i \in 1..Len(items) |-> WithLinkType(items[i])]
    /\ items_by_key' = [x \in DOMAIN items_by_key |-> WithLinkType(items_by_key[x])]
    /\ pc' = "sort"
    /\ UNCHANGED <<input_exists, cache_file, cache, fetches, nrows, rowLocals,
                   key_order, dated_items, keys_to_remove, scan, ri, matched,
                   docVars, writes, runVars>>

\* main, lines 550-554: items.sort(key=sort_key).
SortItems ==
    /\ pc = "sort"
    /\ items' = SortFrom(items, 1, <<>>)
    /\ pc' = "aggregate"
    /\ UNCHANGED <<input_exists, cache_file, cache, fetches, nrows, rowLocals,
                   items_by_key, key_order, dated_items, keys_to_remove, scan, ri,
                   matched, docVars, writes, runVars>>

\* main, lines 556-604: aggregates, empty-month flags and series.
Aggregate ==
    /\ pc = "aggregate"
    /\ agg' = Aggregates(items)
    /\ series' = Series(Aggregates(items))
    /\ pc' = "write"
    /\ UNCHANGED <<input_exists, cache_file, cache, fetches, nrows, rowLocals,
                   items_by_key, key_order, reconVars, output, writes, runVars>>

\* main, lines 606-619: the document is written (generated_at left out).
WriteOutput ==
    /\ pc = "write"
    /\ output' = Some([months |-> MONTHS, items |-> items, aggregates |-> agg,
                       series |-> series])
    /\ writes' = Append(writes, "output")
    /\ pc' = "done"
    /\ UNCHANGED <<input_exists, cache_file, cache, fetches, nrows, rowLocals,
                   items_by_key, key_order, reconVars, agg, series, runVars>>

\* The script is started again on the same input file, with the cache file
\* and the document the first run left.
Rerun ==
    /\ pc = "done"
    /\ run = 1
    /\ run' = 2
    /\ first' = output
    /\ pc' = "start"
    /\ cache' = EmptyMap
    /\ fetches' = EmptyMap
    /\ nrows' = 0
    /\ row' = None /\ res' = None /\ item' = None /\ k' = None /\ prev' = None
    /\ items_by_key' = EmptyMap
    /\ key_order' = <<>>
    /\ dated_items' = <<>>
    /\ keys_to_remove' = {}
    /\ scan' = <<>>
    /\ ri' = 1
    /\ matched' = <<>>
    /\ items' = <<>>
    /\ agg' = EmptyMap
    /\ series' = EmptyMap
    /\ writes' = <<>>
    /\ UNCHANGED <<input_exists, cache_file, output, input_rows>>

\* ---------------------------------------------------------------- inputs

\* Cell texts of the input rows.
CH_YOUTUBE == <<"Y","o","u","T","u","b","e">>
CH_FHC == <<"F","H","C">>
CH_FHC_LOWER == <<"f","h","c">>
TYPE_VIDEO == <<"V","i","d","e","o">>
TYPE_POST == <<"P","o","s","t">>
TITLE_FULL == <<"B","u","d","g","e","t"," ","R","e","c","a","p">>
TITLE_CUT == <<"B","u","d","g","e","t"," ","R",".",".",".">>
TITLE_ALT == <<"B","u","d","g","e","t"," ","R","e","c","a","l","l">>
TITLE_SHORT == <<"B","u","d","g","e","t">>
LINK_SHORT ==
    <<"h","t","t","p","s",":","/","/","y","o","u","t","u",".","b","e","/",
      "a","b","c","1","2","3">>
LINK_WATCH ==
    <<"h","t","t","p","s",":","/","/","w","w","w",".","y","o","u","t","u","b","e",
      ".","c","o","m","/","w","a","t","c","h","?","v","=","a","b","c","1","2","3">>
LINK_PAGE ==
    <<"h","t","t","p","s",":","/","/","f","h","c",".","e","x","a","m","p","l","e",
      "/","w","1">>
DATE_APR9 == <<"9"," ","A","p","r"," ","2","0","2","5">>
DATE_TBD == <<"T","B","D">>
PERIOD_APR == <<"A","p","r","i","l"," ","2","0","2","5">>
PERIOD_JUL == <<"J","u","l","y"," ","2","0","2","5">>
PERIOD_YEAR0 == <<"A","p","r","i","l"," ","0">>
N10 == <<"1","0">>
N30 == <<"3","0">>
N50 == <<"5","0">>
N5000 == <<"5",",","0","0","0">>

\* The canonical URL of LINK_SHORT and LINK_WATCH.
CANON == WATCH_URL \o <<"a","b","c","1","2","3">>

\* One row of the reader: the named cells, every other cell empty.
Row(channel, dtype, title, link, date, period, imp, views) ==
    [Channel |-> channel, DataType |-> dtype, Title |-> title, Link |-> link,
     Date |-> date, ReportMonth |-> period, Impressions |-> imp, Views |-> views,
     Engagements |-> <<>>, Clicks |-> <<>>, Attendees |-> <<>>, ChatCount |-> <<>>,
     EmailSends |-> <<>>, ArticleViews |-> <<>>, Interactions |-> <<>>,
     Notes |-> <<>>]

\* Answers of the outside world to one lookup.
WORLD_DATE == MkDate(2025, 3, 15)
Worlds == [html : {None, Some(WORLD_DATE)}, ytdlp : {None, Some(WORLD_DATE)}]

\* Cache files a run may start from.
CacheFiles ==
    {EmptyMap,
     [x \in {CANON} |-> <<>>],
     [x \in {CANON} |-> isoformat(MkDate(2025, 2, 1))]}

\* Rows of the date-resolution runs.
DateRows ==
    {Row(ch, TYPE_VIDEO, TITLE_FULL, ln, dt, pd, N10, <<>>) :
        ch \in {CH_YOUTUBE, CH_FHC},
        ln \in {<<>>, LINK_SHORT, LINK_WATCH},
        dt \in {<<>>, DATE_APR9, DATE_TBD},
        pd \in {<<>>, PERIOD_APR, PERIOD_YEAR0}}

\* Rows the reader yields in one run of Spec, at most.
MaxRows == 2

\* Rows of the merge runs: one video, listed with every kind of date cell
\* and period label and with small, missing and large impressions, so that
\* all four tiers collide on one identity key.
MergeRows ==
    {Row(CH_YOUTUBE, TYPE_VIDEO, TITLE_FULL, LINK_SHORT, dt, pd, n, <<>>) :
        dt \in {<<>>, DATE_TBD, DATE_APR9},
        pd \in {<<>>, PERIOD_APR},
        n \in {<<>>, N10, N5000}}

\* The lookup answers of the merge runs: the page holds a date or not.
MergeWorlds == [html : {None, Some(WORLD_DATE)}, ytdlp : {None}]

\* Rows the reader yields in one run of SpecMerge, at most.
MaxMergeRows == 3

\* Rows of the reconciliation runs: posts of one channel listed under a
\* period label or with their date, with full, truncated, near and short
\* titles, with and without a link ...
TitledRows ==
    {Row(CH_FHC, TYPE_POST, t, ln, dp[1], dp[2], n, <<>>) :
        t \in {TITLE_FULL, TITLE_CUT, TITLE_ALT, TITLE_SHORT},
        ln \in {<<>>, LINK_PAGE},
        dp \in {<<<<>>, PERIOD_JUL>>, <<DATE_APR9, PERIOD_APR>>},
        n \in {N30, N50}}

\* ... the channel written in another case, a post with large impressions,
\* a post with no usable date, a video whose date is looked up, and the
\* same video listed without its link.
OtherRows ==
    {Row(CH_FHC_LOWER, TYPE_POST, TITLE_FULL, <<>>, DATE_APR9, PERIOD_APR, N30, <<>>),
     Row(CH_FHC, TYPE_POST, TITLE_FULL, LINK_PAGE, <<>>, PERIOD_JUL, N5000, <<>>),
     Row(CH_FHC, TYPE_POST, TITLE_FULL, LINK_PAGE, DATE_TBD, <<>>, N30, <<>>),
     Row(CH_YOUTUBE, TYPE_VIDEO, TITLE_FULL, LINK_SHORT, <<>>, PERIOD_APR, N30, <<>>),
     Row(CH_YOUTUBE, TYPE_VIDEO, TITLE_FULL, <<>>, <<>>, PERIOD_JUL, N30, <<>>)}

ReconRows == TitledRows \cup OtherRows

\* The lookup answer of the reconciliation runs: the page holds a date.
ReconWorlds == [html : {Some(WORLD_DATE)}, ytdlp : {None}]

\* Rows the reader yields in one run of SpecRecon, at most.
MaxReconRows == 3

\* Rows of the runs that go on to the output document.
CH_LINKEDIN == <<"L","i","n","k","e","d","I","n">>
CH_INSTAGRAM == <<"I","n","s","t","a","g","r","a","m">>
CH_WEBINAR == <<"W","e","b","i","n","a","r">>
DATE_JAN9 == <<"9"," ","J","a","n"," ","2","0","2","5">>
N_NEG5 == <<"-","5">>
N_INF == <<"i","n","f">>
N_FRAC == <<"3",".","7">>

\* Rows with a provided date in the range, one before the range, or none.
PlainRows ==
    {Row(ch, TYPE_POST, TITLE_FULL, ln, dp[1], dp[2], N10, <<>>) :
        ch \in {CH_LINKEDIN, CH_FHC, CH_WEBINAR},
        ln \in {<<>>, LINK_PAGE},
        dp \in {<<DATE_APR9, PERIOD_APR>>, <<DATE_JAN9, <<>>>>, <<<<>>, <<>>>>}}

\* Rows with the numeric texts and the channels the metric normalisation
\* looks at, a row without channel, and a row dated by its period only.
NumberRows ==
    {Row(CH_LINKEDIN, TYPE_POST, TITLE_FULL, <<>>, DATE_APR9, PERIOD_APR, N10, N30),
     Row(CH_LINKEDIN, TYPE_POST, TITLE_FULL, <<>>, DATE_APR9, PERIOD_APR, N_NEG5, <<>>),
     Row(CH_FHC, TYPE_POST, TITLE_FULL, <<>>, DATE_APR9, PERIOD_APR, N_INF, <<>>),
     Row(CH_FHC, TYPE_POST, TITLE_FULL, <<>>, <<>>, PERIOD_YEAR0, N10, <<>>),
     Row(CH_FHC, TYPE_POST, TITLE_FULL, LINK_PAGE, DATE_APR9, PERIOD_APR, N_FRAC, <<>>),
     Row(CH_FHC, TYPE_POST, TITLE_FULL, <<>>, <<>>, PERIOD_JUL, N50, <<>>),
     Row(<<>>, TYPE_POST, TITLE_FULL, <<>>, DATE_APR9, PERIOD_APR, <<>>, <<>>),
     [Row(CH_INSTAGRAM, TYPE_POST, TITLE_FULL, <<>>, DATE_APR9, PERIOD_APR, <<>>, <<>>)
         EXCEPT !.Notes = N30, !.Interactions = N10]}

OutRows == PlainRows \cup NumberRows

OutWorlds == [html : {None}, ytdlp : {None}]

\* Rows the reader yields in one run of SpecOut, at most.
MaxOutRows == 2

\* Rows of the runs that are repeated: videos with a short or a watch link,
\* with and without a provided date and a period.
TwiceRows ==
    {Row(CH_YOUTUBE, TYPE_VIDEO, TITLE_FULL, ln, dt, pd, N10, <<>>) :
        ln \in {LINK_SHORT, LINK_WATCH},
        dt \in {<<>>, DATE_APR9},
        pd \in {<<>>, PERIOD_APR}}
      \cup {Row(CH_FHC, TYPE_POST, TITLE_FULL, LINK_PAGE, DATE_APR9, PERIOD_APR, N30, <<>>)}

TwiceWorlds == [html : {None, Some(WORLD_DATE)}, ytdlp : {None}]

\* Rows of the input file of SpecTwice, at most.
MaxTwiceRows == 2

\* Rows of the identity-key runs: with and without title and link, on two
\* dates, and videos under two shapes of one link.
KeyRows ==
    {Row(ch, TYPE_POST, tt, ln, dt, <<>>, N10, <<>>) :
        ch \in {CH_LINKEDIN, CH_INSTAGRAM, CH_FHC},
        tt \in {<<>>, TITLE_FULL},
        ln \in {<<>>, LINK_PAGE},
        dt \in {DATE_APR9, DATE_JAN9}}
      \cup {Row(CH_YOUTUBE, TYPE_VIDEO, TITLE_FULL, ln, dt, <<>>, N10, <<>>) :
               ln \in {LINK_SHORT, LINK_WATCH},
               dt \in {DATE_APR9, DATE_JAN9}}

\* Rows the reader yields in one run of SpecKey, at most.
MaxKeyRows == 2

\* Other shapes of the link of the video abc123.
LINK_WATCH_TIME ==
    <<"h","t","t","p","s",":","/","/","w","w","w",".","y","o","u","t","u","b",
      "e",".","c","o","m","/","w","a","t","c","h","?","v","=","a","b","c","1",
      "2","3","&","t","=","1","0">>
LINK_WATCH_SHARED ==
    <<"h","t","t","p","s",":","/","/","w","w","w",".","y","o","u","t","u","b",
      "e",".","c","o","m","/","w","a","t","c","h","?","f","e","a","t","u","r",
      "e","=","s","h","a","r","e","&","v","=","a","b","c","1","2","3">>
LINK_SHORTS ==
    <<"h","t","t","p","s",":","/","/","w","w","w",".","y","o","u","t","u","b",
      "e",".","c","o","m","/","s","h","o","r","t","s","/","a","b","c","1","2",
      "3">>
LINK_EMBED ==
    <<"h","t","t","p","s",":","/","/","w","w","w",".","y","o","u","t","u","b",
      "e",".","c","o","m","/","e","m","b","e","d","/","a","b","c","1","2",
      "3">>
LINK_STUDIO ==
    <<"h","t","t","p","s",":","/","/","s","t","u","d","i","o",".","y","o","u",
      "t","u","b","e",".","c","o","m","/","v","i","d","e","o","/","a","b","c",
      "1","2","3","/","e","d","i","t">>

LinkShapes ==
    {LINK_SHORT, LINK_WATCH, LINK_WATCH_TIME, LINK_WATCH_SHARED, LINK_SHORTS,
     LINK_EMBED, LINK_STUDIO}

\* Rows of one video under every shape of its link, with and without a
\* provided date.
ShapeRows ==
    {Row(CH_YOUTUBE, TYPE_VIDEO, TITLE_FULL, ln, dt, <<>>, N10, <<>>) :
        ln \in LinkShapes, dt \in {<<>>, DATE_APR9}}

\* Rows the reader yields in one run of SpecShapes, at most.
MaxShapeRows == 2

\* Rows of the candidate-preference runs: records dated by their period
\* and dated records of both types whose titles match theirs.
PrefRows ==
    {Row(CH_FHC, ty, tt, <<>>, <<>>, PERIOD_JUL, N50, <<>>) :
        ty \in {TYPE_POST, TYPE_VIDEO}, tt \in {TITLE_FULL, TITLE_CUT}}
      \cup {Row(CH_FHC, ty, tt, <<>>, DATE_APR9, PERIOD_APR, N30, <<>>) :
               ty \in {TYPE_POST, TYPE_VIDEO}, tt \in {TITLE_FULL, TITLE_ALT}}

\* Rows the reader yields in one run of SpecPref, at most.
MaxPrefRows == 4

\* Rows of the reconciler's frame runs: records dated by their period with
\* more and with fewer impressions than the dated ones, one of them
\* without title, a record without date, and two dated records.
FrameRows ==
    {Row(CH_FHC, TYPE_POST, tt, <<>>, <<>>, PERIOD_JUL, n, <<>>) :
        tt \in {TITLE_FULL, TITLE_CUT}, n \in {N10, N50}}
      \cup {Row(CH_FHC, TYPE_POST, <<>>, <<>>, <<>>, PERIOD_JUL, N50, <<>>),
            Row(CH_FHC, TYPE_POST, TITLE_ALT, <<>>, DATE_TBD, <<>>, N50, <<>>),
            Row(CH_FHC, TYPE_POST, TITLE_ALT, LINK_PAGE, DATE_APR9, PERIOD_APR, N30, <<>>),
            Row(CH_FHC, TYPE_VIDEO, TITLE_FULL, <<>>, DATE_APR9, PERIOD_APR, N30, <<>>)}

\* Rows the reader yields in one run of SpecFrame, at most.
MaxFrameRows == 4

\* --------------------------------------------------------- specifications

InitWith(files) ==
    /\ pc = "start"
    /\ input_exists \in BOOLEAN
    /\ cache_file \in files
    /\ cache = EmptyMap
    /\ fetches = EmptyMap
    /\ nrows = 0
    /\ row = None /\ res = None /\ item = None /\ k = None /\ prev = None
    /\ items_by_key = EmptyMap
    /\ key_order = <<>>
    /\ dated_items = <<>>
    /\ keys_to_remove = {}
    /\ scan = <<>>
    /\ ri = 1
    /\ matched = <<>>
    /\ items = <<>>
    /\ agg = EmptyMap
    /\ series = EmptyMap
    /\ output = None
    /\ writes = <<>>
    /\ run = 1
    /\ input_rows = <<>>
    /\ first = None

Init == InitWith(CacheFiles)

Next ==
    \/ MissingInput
    \/ LoadCache
    \/ \E r \in DateRows, w \in Worlds : ProcessRow(r, w, MaxRows)
    \/ SaveCache
    \/ ReconcileInit
    \/ ReconcileStep
    \/ ApplyRemovals

\* Runs over the date-resolution rows.
Spec == Init /\ [][Next]_vars

InitMerge == InitWith({EmptyMap})

NextMerge ==
    \/ MissingInput
    \/ LoadCache
    \/ \E r \in MergeRows, w \in MergeWorlds : ProcessRow(r, w, MaxMergeRows)
    \/ SaveCache
    \/ ReconcileInit
    \/ ReconcileStep
    \/ ApplyRemovals

\* Runs over the merge rows.
SpecMerge == InitMerge /\ [][NextMerge]_vars

InitRecon == InitWith({EmptyMap})

NextRecon ==
    \/ MissingInput
    \/ LoadCache
    \/ \E r \in ReconRows, w \in ReconWorlds : ProcessRow(r, w, MaxReconRows)
    \/ SaveCache
    \/ ReconcileInit
    \/ ReconcileStep
    \/ ApplyRemovals

\* Runs over the reconciliation rows.
SpecRecon == InitRecon /\ [][NextRecon]_vars

InitOut == InitWith({EmptyMap})

NextOut ==
    \/ MissingInput
    \/ LoadCache
    \/ \E r \in OutRows, w \in OutWorlds : ProcessRow(r, w, MaxOutRows)
    \/ SaveCache
    \/ ReconcileInit
    \/ ReconcileStep
    \/ ApplyRemovals
    \/ FallbackLinks
    \/ SortItems
    \/ Aggregate
    \/ WriteOutput

\* Whole runs, up to the written document.
SpecOut == InitOut /\ [][NextOut]_vars

InitTwice == InitWith(CacheFiles)

NextTwice ==
    \/ MissingInput
    \/ LoadCache
    \/ \E r \in TwiceRows, w \in TwiceWorlds : FirstRunRow(r, w, MaxTwiceRows)
    \/ \E w \in TwiceWorlds : SecondRunRow(w)
    \/ SaveCache
    \/ ReconcileInit
    \/ ReconcileStep
    \/ ApplyRemovals
    \/ FallbackLinks
    \/ SortItems
    \/ Aggregate
    \/ WriteOutput
    \/ Rerun

\* Two runs over the same input file, the second from the cache file the
\* first one wrote.
SpecTwice == InitTwice /\ [][NextTwice]_vars

InitKey == InitWith({EmptyMap})

NextKey ==
    \/ MissingInput
    \/ LoadCache
    \/ \E r \in KeyRows, w \in OutWorlds : ProcessRow(r, w, MaxKeyRows)
    \/ SaveCache
    \/ ReconcileInit
    \/ ReconcileStep
    \/ ApplyRemovals

\* Runs over the identity-key rows.
SpecKey == InitKey /\ [][NextKey]_vars

InitShapes == InitWith({EmptyMap})

NextShapes ==
    \/ MissingInput
    \/ LoadCache
    \/ \E r \in ShapeRows, w \in TwiceWorlds : ProcessRow(r, w, MaxShapeRows)
    \/ SaveCache
    \/ ReconcileInit
    \/ ReconcileStep
    \/ ApplyRemovals

\* Runs over the rows of one video.
SpecShapes == InitShapes /\ [][NextShapes]_vars

InitPref == InitWith({EmptyMap})

NextPref ==
    \/ MissingInput
    \/ LoadCache
    \/ \E r \in PrefRows, w \in OutWorlds : ProcessRow(r, w, MaxPrefRows)
    \/ SaveCache
    \/ ReconcileInit
    \/ ReconcileStep
    \/ ApplyRemovals

\* Runs over the candidate-preference rows.
SpecPref == InitPref /\ [][NextPref]_vars

InitFrame == InitWith({EmptyMap})

NextFrame ==
    \/ MissingInput
    \/ LoadCache
    \/ \E r \in FrameRows, w \in OutWorlds : ProcessRow(r, w, MaxFrameRows)
    \/ SaveCache
    \/ ReconcileInit
    \/ ReconcileStep
    \/ ApplyRemovals

\* Runs over the rows of the reconciler's frame.
SpecFrame == InitFrame /\ [][NextFrame]_vars

\* ------------------------------------------------------------- properties

\* The order of the date-source tiers:
\* provided > looked up > inferred from the period > unknown.
TierRank(source) ==
    CASE source = "provided" -> 3
      [] source = "youtube_publish" -> 2
      [] source = "inferred_report_month" -> 1
      [] source = "unknown" -> 0

\* The identity keys of the records of a list, in order.
KeysOf(list) == [i \in 1..Len(list) |-> dedup_key(list[i])]

\* C1: no two records of the final item list have the same identity key,
\* the key being dedup_key of the record's fields as they stand once the
\* merge and the reconciliation are over.
C1_NoDuplicateKeys ==
    pc = "fallback_links" =>
        \A i, j \in 1..Len(items) : i # j => KeysOf(items)[i] # KeysOf(items)[j]

\* C2: within one run the network is tried at most once for each canonical
\* video URL, however many rows carry it and whatever the first try gave.
C2_AtMostOneFetch == \A u \in DOMAIN fetches : fetches[u] <= 1

\* The precedence of the date resolution for the row r, given its resolved
\* locals rs and the item built from it: the date cell d0, then the lookup
\* (only without d0, for a video row with a link), then the period label rm,
\* then nothing.
FollowsPrecedence(r, rs, it, d0, eligible, rm) ==
    /\ ~IsNone(d0) => ~rs.looked
    /\ IF ~IsNone(d0)
       THEN rs.date_source = "provided" /\ rs.d = d0
       ELSE IF eligible /\ ~IsNone(rs.yd)
       THEN rs.date_source = "youtube_publish" /\ rs.d = rs.yd
       ELSE IF ~rm.raised /\ ~IsNone(rm.val)
       THEN /\ rs.date_source = "inferred_report_month"
            /\ rs.d = rm.val /\ Val(rs.d).day = 1
       ELSE /\ rs.date_source = "unknown" /\ IsNone(rs.d)
            /\ it.date_iso = <<>> /\ it.month = NODATE
    /\ it.date_source = rs.date_source

\* C3: every row the reader yields is resolved, and its date and tier
\* follow the precedence provided, looked up, inferred from the period,
\* unknown; a failed lookup falls through, and no lookup is made when the
\* date cell parses.
C3_Precedence ==
    row # None =>
        /\ res # None /\ item # None
        /\ FollowsPrecedence(Val(row), Val(res), Val(item),
                             parse_human_date(Strip(Val(row).Date)),
                             /\ Lower(Strip(Val(row).Channel)) = YOUTUBE
                             /\ Strip(Val(row).Link) # <<>>,
                             parse_report_month(Strip(Val(row).ReportMonth)))

\* The record stored under the key of the last row.
Stored == items_by_key[Val(k)]

\* The last row collided with a stored record (prev) during the row loop.
Collided == pc = "rows" /\ prev # None

\* The magnitude exception as the merge rule states it: the stored
\* impressions exceed ten times the incoming ones and exceed 100.
Exception(a, b) ==
    ImpOrZero(a) > 10 * ImpOrZero(b) /\ ImpOrZero(a) > 100

\* C4: when the incoming record collides with a stored one of strictly
\* lower tier and the magnitude exception does not apply, the record stored
\* afterwards equals the incoming one in every field.
C4_FullReplacement ==
    ( /\ Collided
      /\ TierRank(Val(item).date_source) > TierRank(Val(prev).date_source)
      /\ ~Exception(Val(prev), Val(item)) )
    => Stored = Val(item)

\* C4, its case: a record replaced by one of higher tier and fewer
\* impressions.
C4_Witness ==
    /\ Collided
    /\ TierRank(Val(item).date_source) > TierRank(Val(prev).date_source)
    /\ ~Exception(Val(prev), Val(item))
    /\ ImpOrZero(Val(prev)) > ImpOrZero(Val(item))
    /\ Stored # Val(prev)

\* The magnitude exception applied to the last row.
Grafted ==
    /\ Collided
    /\ TierRank(Val(item).date_source) > TierRank(Val(prev).date_source)
    /\ Exception(Val(prev), Val(item))

\* C5 as stated: under the magnitude exception the stored record has
\* exactly the incoming record's date text, ISO date, month and tier, and
\* the stored record's value in every other field.
C5_GraftAllFour ==
    Grafted =>
        Stored = [Val(prev) EXCEPT !.date_raw = Val(item).date_raw,
                                   !.date_iso = Val(item).date_iso,
                                   !.month = Val(item).month,
                                   !.date_source = Val(item).date_source]

\* C5, amended: under the magnitude exception the stored record has the
\* incoming record's ISO date, month and tier, the incoming record's date
\* text unless that is empty (then it keeps its own date text), and its own
\* value in every other field.
C5_GraftKeepsDateText ==
    Grafted =>
        Stored = [Val(prev) EXCEPT !.date_raw = IF Val(item).date_raw # <<>>
                                                THEN Val(item).date_raw
                                                ELSE Val(prev).date_raw,
                                   !.date_iso = Val(item).date_iso,
                                   !.month = Val(item).month,
                                   !.date_source = Val(item).date_source]

\* C5, its case: the exception applied to an incoming record without date
\* text, on a stored record that has one.
C5_Witness ==
    /\ Grafted
    /\ Val(item).date_raw = <<>>
    /\ Val(prev).date_raw # <<>>
    /\ Stored.impressions = Val(prev).impressions
    /\ Stored.date_iso = Val(item).date_iso

\* C6: when the incoming record collides with a stored one of the same
\* tier, the record stored afterwards is the incoming one if its impressions
\* are strictly greater (null as 0) and the stored one, unchanged, if not.
C6_EqualTier ==
    ( /\ Collided
      /\ TierRank(Val(item).date_source) = TierRank(Val(prev).date_source) )
    => Stored = IF ImpOrZero(Val(item)) > ImpOrZero(Val(prev))
                THEN Val(item) ELSE Val(prev)

\* C6, its case: a tie between two different records of one tier.
C6_Witness ==
    /\ Collided
    /\ TierRank(Val(item).date_source) = TierRank(Val(prev).date_source)
    /\ ImpOrZero(Val(item)) = ImpOrZero(Val(prev))
    /\ Val(item) # Val(prev)
    /\ Stored = Val(prev)

\* C7: during the row loop the tier of the record stored under a key never
\* decreases, and an incoming record of strictly lower tier leaves the
\* stored record unchanged in every field.
C7_TierNeverDecreases ==
    [][ pc = "rows" =>
          /\ \A key \in DOMAIN items_by_key :
                /\ key \in DOMAIN items_by_key'
                /\ TierRank(items_by_key'[key].date_source)
                       >= TierRank(items_by_key[key].date_source)
          /\ ( /\ pc' = "rows" /\ nrows' # nrows /\ prev' # None
               /\ TierRank(Val(item').date_source) < TierRank(Val(prev').date_source) )
             => /\ items_by_key' = items_by_key
                /\ items_by_key'[Val(k')] = Val(prev') ]_vars

\* C7, its case: an incoming record of lower tier and more impressions
\* left the stored record as it was.
C7_Witness ==
    /\ Collided
    /\ TierRank(Val(item).date_source) < TierRank(Val(prev).date_source)
    /\ ImpOrZero(Val(item)) > ImpOrZero(Val(prev))
    /\ Stored = Val(prev)

\* The length of the longest common prefix of two texts.
CommonPrefix(a, b) ==
    CHOOSE n \in 0..Min(Len(a), Len(b)) :
        /\ SubSeq(a, 1, n) = SubSeq(b, 1, n)
        /\ n = Min(Len(a), Len(b)) \/ a[n + 1] # b[n + 1]

\* The inferred record x and the dated record c are on the same channel
\* (the case of the letters and surrounding blanks set aside).
SameChannel(x, c) == Lower(Strip(x.channel)) = Lower(Strip(c.channel))

\* C8 as stated: the reconciler pairs an inferred record with a dated one
\* only if they have the same channel, both cleaned titles have at least 8
\* characters, and the cleaned titles share a prefix of at least 10
\* characters.
C8_PrefixOfTen ==
    \A i \in 1..Len(matched) :
        /\ SameChannel(matched[i].x, matched[i].c)
        /\ Len(clean_title(matched[i].x.title)) >= 8
        /\ Len(clean_title(matched[i].c.title)) >= 8
        /\ CommonPrefix(clean_title(matched[i].x.title),
                        clean_title(matched[i].c.title)) >= 10

\* C8, amended: the reconciler pairs an inferred record with a dated one
\* only if they have the same channel (case set aside), both cleaned titles
\* have at least 8 characters, and the cleaned titles agree on their first
\* 10 characters, or on all characters of the shorter one when that has
\* only 8 or 9.
C8_PrefixOfShorter ==
    \A i \in 1..Len(matched) :
        /\ SameChannel(matched[i].x, matched[i].c)
        /\ Len(clean_title(matched[i].x.title)) >= 8
        /\ Len(clean_title(matched[i].c.title)) >= 8
        /\ CommonPrefix(clean_title(matched[i].x.title),
                        clean_title(matched[i].c.title))
               >= Min(10, Min(Len(clean_title(matched[i].x.title)),
                              Len(clean_title(matched[i].c.title))))

\* C8, its case: a pair whose shorter cleaned title has 8 characters, all
\* of them shared, on channels written in different cases.
C8_Witness ==
    \E i \in 1..Len(matched) :
        /\ Len(clean_title(matched[i].x.title)) = 8
        /\ CommonPrefix(clean_title(matched[i].x.title),
                        clean_title(matched[i].c.title)) = 8
        /\ matched[i].x.channel # matched[i].c.channel

\* The tier a record carries once it adopted the date of a record of tier
\* source.
MatchedTier(source) ==
    CASE source = "provided" -> "matched_provided"
      [] source = "youtube_publish" -> "matched_youtube_publish"

\* The inferred record x once it adopted the date of c: c's date text, ISO
\* date and month, the matched tier, c's link if it had none, and its own
\* value in every other field.
Adopted(x, c) ==
    [x EXCEPT !.date_raw = c.date_raw,
              !.date_iso = c.date_iso,
              !.month = c.month,
              !.date_source = MatchedTier(c.date_source),
              !.link = IF x.link = <<>> THEN c.link ELSE x.link]

\* The record it is in the final list.
InFinal(it) == \E j \in 1..Len(items) : items[j] = it

\* C9: when the reconciler found the candidate c for the inferred record
\* x: if x has at least c's impressions (null as 0), x is in the final list
\* with c's date fields, the matched tier, its own metrics and its link
\* (c's if it had none), and c is not in the final list; otherwise x is not
\* in the final list.
C9_Outcome ==
    pc = "fallback_links" =>
        \A i \in 1..Len(matched) :
            IF ImpOrZero(matched[i].x) >= ImpOrZero(matched[i].c)
            THEN /\ matched[i].xk \in DOMAIN items_by_key
                 /\ items_by_key[matched[i].xk] = Adopted(matched[i].x, matched[i].c)
                 /\ InFinal(Adopted(matched[i].x, matched[i].c))
                 /\ matched[i].ck \notin DOMAIN items_by_key
                 /\ ~InFinal(matched[i].c)
            ELSE /\ matched[i].xk \notin DOMAIN items_by_key
                 /\ ~InFinal(matched[i].x)

\* C9, its case: an inferred record with 50 impressions and a record dated
\* 2025-04-09 with 30 gave one record, with 50 impressions and that date.
C9_Witness ==
    /\ pc = "fallback_links"
    /\ Len(matched) = 1
    /\ matched[1].x.impressions = Some(50)
    /\ matched[1].c.impressions = Some(30)
    /\ matched[1].c.date_source = "provided"
    /\ Len(items) = 1
    /\ items[1].impressions = Some(50)
    /\ items[1].date_iso = isoformat(MkDate(2025, 4, 9))

\* The month of a record is the YYYY-MM of its ISO date, and the no-date
\* sentinel exactly when it has no ISO date.
MonthAgrees(it) ==
    /\ it.month = IF it.date_iso = <<>> THEN NODATE ELSE SubSeq(it.date_iso, 1, 7)
    /\ it.month = NODATE <=> it.date_iso = <<>>

\* C10: in every state of the identity map, after each merged row and
\* each step of the reconciler, and in the final list, the month of every
\* record agrees with its ISO date.
C10_MonthOfDate ==
    /\ \A key \in DOMAIN items_by_key : MonthAgrees(items_by_key[key])
    /\ \A j \in 1..Len(items) : MonthAgrees(items[j])

\* C10, its case: the magnitude exception moved a stored record to another
\* month.
C10_Witness ==
    /\ Grafted
    /\ Stored.month # Val(prev).month
    /\ Stored.month = Val(item).month
    /\ Stored.impressions = Val(prev).impressions

\* The items of the written document.
OutItems == IF IsNone(output) THEN <<>> ELSE Val(output).items

\* C11: every metric field of every record of the written document is null
\* or an integer that is not negative.
C11_MetricsNonNegative ==
    \A i \in 1..Len(OutItems) : \A key \in METRIC_KEYS :
        IsNone(OutItems[i][key]) \/ Val(OutItems[i][key]) >= 0

\* C12: normalising a row never fails: no run ends in an exception raised
\* by a parser.
C12_NormalizingNeverFails == pc # "crashed"

\* The written document.
Doc == Val(output)

\* The records of the list whose month is m.
OfMonth(list, m) == SelectSeq(list, LAMBDA it : it.month = m)

\* The sum of a metric over records, null as 0.
RECURSIVE SumOf(_, _)
SumOf(recs, key) ==
    IF recs = <<>> THEN 0
    ELSE (IF IsNone(Head(recs)[key]) THEN 0 ELSE Val(Head(recs)[key]))
             + SumOf(Tail(recs), key)

\* The final records: what the identity map holds when the run is over.
FinalRecords == {items_by_key[key] : key \in DOMAIN items_by_key}

\* C14: in the written document the months are those of the configured
\* range, and for each of them every metric total is the sum of that metric
\* over the final records of that month (null as 0) and the item count is
\* the number of those records; the flat list holds every final record, the
\* ones of no month of the range included.
C14_MonthTotals ==
    pc = "done" =>
        /\ Len(Doc.months) = 11
        /\ Doc.months[1] = RANGE_START /\ Doc.months[11] = RANGE_END
        /\ DOMAIN Doc.aggregates = Range(Doc.months)
        /\ Range(Doc.items) = FinalRecords
        /\ Len(Doc.items) = Cardinality(DOMAIN items_by_key)
        /\ \A m \in Range(Doc.months) :
              /\ Doc.aggregates[m].totals.items = Len(OfMonth(Doc.items, m))
              /\ \A key \in METRIC_KEYS :
                    Doc.aggregates[m].totals[key] = SumOf(OfMonth(Doc.items, m), key)

\* Two records of one month with impressions, or one record of that month
\* and one of no month of the range.
C14_Witness ==
    /\ pc = "done"
    /\ Len(Doc.items) = 2
    /\ \E m \in Range(Doc.months) :
          /\ Doc.aggregates[m].totals.items = 2
          /\ Doc.aggregates[m].totals.impressions = 20

\* C15: a month carries the empty-month flag and the note exactly when no
\* final record has that month; its totals and count are then zero and it
\* has no per-channel entry.
C15_EmptyMonths ==
    pc = "done" =>
        \A m \in Range(Doc.months) :
            /\ Doc.aggregates[m].is_empty \in {None, Some(TRUE)}
            /\ Doc.aggregates[m].is_empty = Some(TRUE)
                   <=> OfMonth(Doc.items, m) = <<>>
            /\ Doc.aggregates[m].note = Some(EMPTY_NOTE)
                   <=> OfMonth(Doc.items, m) = <<>>
            /\ IsNone(Doc.aggregates[m].note) <=> OfMonth(Doc.items, m) # <<>>
            /\ OfMonth(Doc.items, m) = <<>> =>
                  /\ \A key \in DOMAIN Doc.aggregates[m].totals :
                        Doc.aggregates[m].totals[key] = 0
                  /\ Doc.aggregates[m].by_channel = EmptyMap

\* A month with a record that has no impressions, next to an empty month.
C15_Witness ==
    /\ pc = "done"
    /\ \E m \in Range(Doc.months) :
          /\ Doc.aggregates[m].totals.items = 1
          /\ Doc.aggregates[m].totals.impressions = 0
          /\ IsNone(Doc.aggregates[m].is_empty)
    /\ \E m \in Range(Doc.months) : Doc.aggregates[m].is_empty = Some(TRUE)

\* The link type and link the step from a record a to b must give.
LinkTypeAsClaimed(a, b) ==
    IF a.link # <<>> THEN b.link_type = "direct" /\ b.link = a.link
    ELSE IF ~IsNone(Lookup(PLATFORM_LINKS, Lower(a.channel)))
    THEN /\ b.link_type = "platform"
         /\ b.link = Val(Lookup(PLATFORM_LINKS, Lower(a.channel)))
    ELSE b.link_type = "none" /\ b.link = <<>>

\* C16: the link step gives every final record one link type: direct when
\* its link was not empty before the step (a backfilled link included),
\* platform with the platform URL as link when it was empty and the
\* channel, whatever its case, has a platform URL, none with the link still
\* empty otherwise.
C16_LinkType ==
    [][pc = "fallback_links" =>
          /\ Len(items') = Len(items)
          /\ \A i \in 1..Len(items) :
                /\ "link_type" \notin DOMAIN items[i]
                /\ items'[i].link_type \in {"direct", "platform", "none"}
                /\ LinkTypeAsClaimed(items[i], items'[i])]_vars

\* A written document whose one record came without link and is direct by
\* the link the reconciler backfilled.
C16_Witness ==
    /\ pc = "done"
    /\ Len(matched) = 1
    /\ matched[1].adopted
    /\ matched[1].x.link = <<>>
    /\ Len(Doc.items) = 1
    /\ Doc.items[1].link_type = "direct"

\* The positions of main after the call of save_cache and before the
\* document is written.
AfterSave ==
    {"index", "reconcile", "fallback_links", "sort", "aggregate", "write"}

\* C17: without the input file the run aborts before any row and writes
\* neither cache nor document; otherwise the cache is written once, when
\* the row loop is left and before reconciliation, aggregation and the
\* document, and the document is written last.
C17_WriteOrder ==
    /\ [](/\ ~input_exists =>
                pc \in {"start", "aborted"} /\ writes = <<>> /\ nrows = 0
          /\ pc \in {"start", "aborted", "rows", "crashed"} =>
                writes = <<>> /\ IsNone(output)
          /\ pc \in AfterSave => writes = <<"cache">> /\ IsNone(output)
          /\ pc = "done" => writes = <<"cache", "output">> /\ ~IsNone(output))
    /\ [][writes # <<>> => nrows' = nrows /\ row' = row /\ cache_file' = cache_file]_vars

\* A run over two rows that wrote the cache and then the document.
C17_Witness ==
    /\ pc = "done"
    /\ nrows = 2
    /\ writes = <<"cache", "output">>

\* C13: a second run over the same rows, started from the cache file the
\* first run wrote, writes the document the first run wrote (items,
\* aggregates and series), whatever the outside world answers to it.
C13_SecondRunSameDocument == run = 2 /\ pc = "done" => output = first

\* The normalised link of a record.
NormOf(a) == NormLink(a.channel, a.link, normalize_youtube_url(a.link))

SameContent(a, b) ==
    /\ a.channel = b.channel /\ a.type = b.type /\ a.title = b.title
    /\ NormOf(a) = NormOf(b)

\* The records whose key holds the date: as the claim has it, and with the
\* channel counting only when there is no link.
DatedByChannel(a) ==
    \/ a.title = <<>> /\ NormOf(a) = <<>>
    \/ Lower(a.channel) \in {LINKEDIN, INSTAGRAM}

DatedWithoutLink(a) ==
    /\ NormOf(a) = <<>>
    /\ a.title = <<>> \/ Lower(a.channel) \in {LINKEDIN, INSTAGRAM}

\* The row just read made the item `item` with key k and met prev under
\* it: the key holds the date exactly for the dated records, and the item
\* met a stored record exactly when one has its channel, type, title and
\* normalised link and, for a dated record, its date.
KeyAsClaimed(Dated(_)) ==
    pc = "rows" /\ ~IsNone(item) =>
        /\ Len(Val(k)) = IF Dated(Val(item)) THEN 5 ELSE 4
        /\ Val(k)[1] = Val(item).channel /\ Val(k)[2] = Val(item).type
        /\ Val(k)[3] = Val(item).title /\ Val(k)[4] = NormOf(Val(item))
        /\ Dated(Val(item)) => Val(k)[5] = Val(item).date_iso
        /\ ~IsNone(prev) =>
              /\ SameContent(Val(item), Val(prev))
              /\ Dated(Val(item)) => Val(item).date_iso = Val(prev).date_iso
        /\ IsNone(prev) =>
              \A key \in DOMAIN items_by_key \ {Val(k)} :
                  \/ ~SameContent(Val(item), items_by_key[key])
                  \/ /\ Dated(Val(item))
                     /\ Val(item).date_iso # items_by_key[key].date_iso

\* C18 (as stated): the date is part of the identity key exactly for
\* records without title and link and for LinkedIn and Instagram records;
\* two such rows with the same channel, type, title and link and different
\* dates stay apart, every other two rows with the same channel, type,
\* title and normalised link merge.
C18_DatedByChannel == KeyAsClaimed(DatedByChannel)

\* C18 (amended): the date is part of the identity key exactly for records
\* without normalised link that have no title or are LinkedIn or Instagram
\* records; LinkedIn and Instagram rows with the same non-empty link merge
\* whatever their dates.
C18_DatedWithoutLink == KeyAsClaimed(DatedWithoutLink)

\* Two LinkedIn rows with the same title and link and different dates: the
\* second met the first under a key without date.
C18_Witness ==
    /\ pc = "rows"
    /\ nrows = 2
    /\ ~IsNone(item) /\ ~IsNone(prev)
    /\ Val(item).channel = CH_LINKEDIN
    /\ Val(item).link = LINK_PAGE
    /\ Val(item).date_iso # Val(prev).date_iso
    /\ Len(Val(k)) = 4

\* Every shape of the link gives the canonical watch URL, every row read
\* has the one identity key, and the cache has no entry but the canonical
\* URL's.
ShapesShareKeyAndEntry ==
    /\ \A ln \in LinkShapes : normalize_youtube_url(ln) = Some(CANON)
    /\ Cardinality(DOMAIN items_by_key) <= 1
    /\ ~IsNone(k) => Val(k) = <<CH_YOUTUBE, TYPE_VIDEO, TITLE_FULL, CANON>>
    /\ nrows = 2 /\ pc = "rows" => ~IsNone(prev)
    /\ DOMAIN cache \subseteq {CANON}

\* Two rows in a row that were looked up got the same answer.
ShapesShareAnswer ==
    /\ pc = "rows" /\ pc' = "rows" /\ nrows = 1
    /\ Val(res).looked /\ Val(res').looked
    => Val(res').yd = Val(res).yd

\* C19: two video rows with the same channel, type and title whose links
\* are shapes of the link of one video normalise to the same canonical
\* URL, have the same identity key and merge, and share one cache entry and
\* one lookup answer.
C19_ShapesShareAll == []ShapesShareKeyAndEntry /\ [][ShapesShareAnswer]_vars

\* The dated records that were candidates for the pair m: matching, and
\* not marked for removal when the pair was made.
CandidatesOf(m) ==
    {key \in Range(dated_items) \ m.removed : Matches(m.x, items_by_key[key])}

\* C20: the candidate the reconciler chose for a record dated by its
\* period was not marked for removal, and has the type of the record when
\* a candidate of that type was there.
C20_PrefersSameType ==
    pc = "reconcile" =>
        \A j \in 1..Len(matched) :
            /\ matched[j].ck \in CandidatesOf(matched[j])
            /\ (\E key \in CandidatesOf(matched[j]) :
                    items_by_key[key].type = matched[j].x.type)
                   => matched[j].c.type = matched[j].x.type

\* One chosen candidate has the type of its record and comes behind a
\* candidate of the other type, and another record met a matching dated
\* record that was already marked for removal.
C20_Witness ==
    /\ pc = "reconcile"
    /\ \E j \in 1..Len(matched) :
          \E key \in Range(dated_items) \cap matched[j].removed :
              Matches(matched[j].x, items_by_key[key])
    /\ \E j \in 1..Len(matched) :
          /\ matched[j].c.type = matched[j].x.type
          /\ \E i1, i2 \in 1..Len(dated_items) :
                /\ i1 < i2
                /\ dated_items[i2] = matched[j].ck
                /\ dated_items[i1] \in CandidatesOf(matched[j])
                /\ items_by_key[dated_items[i1]].type # matched[j].x.type

\* A record still dated by its period, with a title.
StillInferred(a) == a.date_source = "inferred_report_month" /\ Strip(a.title) # <<>>

\* A record with a provided or a looked-up date.
ProperlyDated(a) == a.date_source \in {"provided", "youtube_publish"}

\* C21: after the reconciler's pass and the removals, the final list holds
\* no record still dated by its period, with a title, next to a record with
\* a provided or looked-up date that matches it (same channel, cleaned
\* titles long enough and equal on the compared prefix).
C21_NoPairLeft ==
    pc = "fallback_links" =>
        \A i, j \in 1..Len(items) :
            ~(/\ StillInferred(items[i])
              /\ ProperlyDated(items[j])
              /\ Matches(items[i], items[j]))

\* The final list holds a record still dated by its period, with a title:
\* the dated record that matches it went to another record, which took
\* its date, and is removed.
C21_Witness ==
    /\ pc = "fallback_links"
    /\ \E i \in 1..Len(items) : \E j \in 1..Len(matched) :
          /\ StillInferred(items[i])
          /\ matched[j].adopted
          /\ ProperlyDated(matched[j].c)
          /\ Matches(items[i], matched[j].c)
          /\ matched[j].ck \notin DOMAIN items_by_key

\* A record the pass has nothing to do with: without date, or dated by its
\* period and without title.
OutOfPass(a) ==
    \/ a.date_source = "unknown"
    \/ a.date_source = "inferred_report_month" /\ Strip(a.title) = <<>>

\* A record that took the date of a dated record.
HasAdopted(a) == a.date_source \in {"matched_provided", "matched_youtube_publish"}

\* C22: no step of the reconciler's pass, the removals included, removes
\* or changes a record without date or a record dated by its period and
\* without title, changes a field of a record with a provided or looked-up
\* date (it stays as it is or goes whole), or removes a record that took a
\* matched date; the final list is what is left.
C22_Frame ==
    [][pc = "reconcile" =>
          /\ \A key \in DOMAIN items_by_key :
                /\ OutOfPass(items_by_key[key]) =>
                      /\ key \notin keys_to_remove'
                      /\ key \in DOMAIN items_by_key'
                      /\ items_by_key'[key] = items_by_key[key]
                /\ ProperlyDated(items_by_key[key]) =>
                      (key \in DOMAIN items_by_key' =>
                           items_by_key'[key] = items_by_key[key])
                /\ HasAdopted(items_by_key[key]) =>
                      /\ key \notin keys_to_remove'
                      /\ key \in DOMAIN items_by_key'
          /\ pc' = "fallback_links" =>
                /\ Range(items') = {items_by_key'[key] : key \in DOMAIN items_by_key'}
                /\ Len(items') = Cardinality(DOMAIN items_by_key')]_vars

\* The final list of a pass that removed a dated record: it holds the
\* record that took its date, a record without date and a record dated by
\* its period without title.
C22_Witness ==
    /\ pc = "fallback_links"
    /\ \E j \in 1..Len(matched) :
          /\ matched[j].adopted
          /\ matched[j].ck \notin DOMAIN items_by_key
          /\ matched[j].xk \in DOMAIN items_by_key
          /\ HasAdopted(items_by_key[matched[j].xk])
    /\ \E i \in 1..Len(items) : items[i].date_source = "unknown"
    /\ \E i \in 1..Len(items) :
          items[i].date_source = "inferred_report_month" /\ items[i].title = <<>>

====
